---- MODULE Spec2Model ----
(***************************************************************************)
(* A model of layrr's coordination layer:                                  *)
(*   - the checkpoint manager (GitManager), a driver of git commands on    *)
(*     one project directory;                                              *)
(*   - the bridge (Bridge.HandleMessage) in front of the agent session;    *)
(*   - the correlated transport (the useWebSocket hook).                   *)
(* The three parts share no state; each has its own specification.         *)
(***************************************************************************)
EXTENDS Integers, Sequences, FiniteSets, TLC

(***************************************************************************)
(* Bounds of the model.                                                    *)
(***************************************************************************)
\* commits that may be added to the commits of the initial history
MaxNewCommits == 1
\* contents of the one modelled file are 0 (absent) and 1..MaxContent
MaxContent == 2
\* concurrent callers of Bridge.HandleMessage
MaxCallers == 3
\* live sockets and pending timers the effect may leave behind when it runs again
MaxLeftBehind == 0
\* concurrent callers of the checkpoint manager
MaxGitCallers == 2
\* Date.now() runs from 1 to MaxTime
MaxTime == 2
\* sendMessage calls that pass an onResponse callback
MaxSends == 2
\* inner texts and markups are up to MaxOver bytes shorter and longer than the limit
MaxOver == 1
\* selections hold up to MaxMore elements more than the 20 that are described
MaxMore == 2

(***************************************************************************)
(* Part 1: the git repository, as far as the manager's commands see it.    *)
(*                                                                         *)
(* One file stands for the project's working tree.  A tree is the content  *)
(* of that file: 0 when the file is absent, 1..MaxContent otherwise, and   *)
(* ConflictMarkers for a file that a conflicted merge left in the working  *)
(* tree.  The index holds a content too, or Unmerged during a conflict.    *)
(* A commit's hash is its position in `commits`; commits are created in    *)
(* date order, so a larger hash is a later commit date.                    *)
(***************************************************************************)
VARIABLES
    commits,     \* sequence of commit objects: [parents, tree, author, msg]
    branches,    \* branch name -> hash, 0 when the branch does not exist
    head,        \* [ref |-> branch name or "HEAD" when detached, at |-> hash when detached]
    index,       \* the staged content
    worktree,    \* the working-tree content
    mergeHead,   \* MERGE_HEAD: the hash being merged, 0 when no merge is in progress
    lastRes,     \* the last finished manager call, or NoCall: its name, its argument
                 \* (msg or hash), the fault the environment injected, the error returned,
                 \* the git commands it ran and what its ensureMainBranch returned
    callPc       \* caller -> the git command its manager call runs next, "idle" for none

gitVars == <<commits, branches, head, index, worktree, mergeHead, lastRes, callPc>>

(***************************************************************************)
(* The bridge and the agent session (src/pkg/bridge/bridge.go).            *)
(***************************************************************************)
VARIABLES
    pc,          \* caller -> where its HandleMessage call stands
    sessionLock, \* the caller holding the session's lock, 0 when it is free
    processing,  \* the callers whose instruction the agent is working on
    result,      \* caller -> what its last HandleMessage call returned
    msgOf,       \* caller -> the message of its HandleMessage call
    formattedMsg, \* caller -> the local formattedMsg of its call
    submitted,   \* caller -> the strings its call has passed to SendMessage
    sendResult,  \* caller -> what SendMessage returned to its last call
    fmtInput,    \* the message formatMessage is applied to
    fmtOutput    \* what formatMessage returned for it

bridgeCalls == <<pc, sessionLock, processing, result, msgOf, formattedMsg, submitted, sendResult>>
fmtVars == <<fmtInput, fmtOutput>>
bridgeVars == <<bridgeCalls, fmtVars>>

(***************************************************************************)
(* The transport hook (src/frontend/src/hooks/useWebSocket.ts).            *)
(***************************************************************************)
VARIABLES
    proxyURL,          \* the hook's argument, "" before the proxy runs
    mounted,           \* the component using the hook is mounted
    ws,                \* readyState of the socket wsRef.current names, "null" for none
    orphans,           \* live sockets wsRef no longer names: readyState -> how many
    isConnected,       \* the hook's React state
    reconnectAttempts, \* reconnectAttemptsRef.current
    refTimer,          \* delay of the pending timer reconnectTimeoutRef names, 0 for none
    otherTimers,       \* pending reconnect timers the ref no longer names: delay -> how many
    messageHandlers,   \* messageHandlersRef.current: message id -> handler
    now,               \* Date.now()
    handlersMade,      \* how many onResponse callbacks the callers have passed
    finished,          \* the handlers that were given a terminal message
    wsEvent,           \* what the last sendMessage or onmessage did
    backoff,           \* the delays scheduled since the last open, until a cleanup
    tornDown           \* the effect's cleanup has run on a hook that had a socket

wsVars == <<proxyURL, mounted, ws, orphans, isConnected, reconnectAttempts, refTimer,
            otherTimers, messageHandlers, now, handlersMade, finished, wsEvent,
            backoff, tornDown>>

(***************************************************************************)
(* The checkpoint dialog (GitCheckpointModal.tsx) and the history dialog   *)
(* (GitHistoryModal).                                                      *)
(***************************************************************************)
VARIABLES
    typedMessage,  \* the checkpoint dialog's state `message`: the text of the textarea
    isCreating,    \* the checkpoint dialog's state isCreating
    createError,   \* the checkpoint dialog's state `error`
    creating,      \* the CreateGitCheckpoint calls in flight: the message of each
    isSwitching,   \* the history dialog's state isSwitching
    switchingHash, \* the history dialog's state switchingHash
    switchError,   \* the history dialog's state `error`
    switching,     \* the SwitchToGitCommit calls in flight: the hash of each
    dialogEvent    \* what the last handler of a dialog did

dialogVars == <<typedMessage, isCreating, createError, creating, isSwitching,
                switchingHash, switchError, switching, dialogEvent>>

vars == <<gitVars, bridgeVars, wsVars, dialogVars>>

BranchNames == {"main", "feature"}
ConflictMarkers == MaxContent + 1
Unmerged == 0 - 1
Contents == 0..MaxContent

Repo == [commits |-> commits, branches |-> branches, head |-> head,
         index |-> index, worktree |-> worktree, mergeHead |-> mergeHead]

\* the errors of Go: nil is the empty chain, fmt.Errorf("...: %w", err) prepends
Nil == <<>>
Wrap(text, err) == <<text>> \o err
\* the text of exec.ExitError for the exit codes git returns, computed once
ExitStatuses == [code \in {1, 128} |-> <<"exit status " \o ToString(code)>>]
ExitStatus(code) ==
    IF code \in DOMAIN ExitStatuses THEN ExitStatuses[code]
    ELSE <<"exit status " \o ToString(code)>>

NoCall == [op |-> "none", msg |-> <<>>, hash |-> "", fault |-> "none", err |-> Nil,
           cmds |-> <<>>, ensured |-> Nil]

\* the author of the commits that exist before the manager runs, and of merge commits
UserName == <<"user">>
\* GIT_AUTHOR_NAME of CreateCommit
LayrrName == <<"Layrr">>

\* commit messages are sequences of tokens; "|" is the separator of the log format
Messages == {<<>>, <<"fix", "|", "typo">>}

HeadCommit(r) == IF r.head.ref = "HEAD" THEN r.head.at ELSE r.branches[r.head.ref]
TreeOf(r, c) == r.commits[c].tree

RECURSIVE Ancestors(_, _)
Ancestors(cs, c) ==
    {c} \cup UNION {Ancestors(cs, cs[c].parents[i]) : i \in 1..Len(cs[c].parents)}

\* the best common ancestor of a and b (0 when there is none)
MergeBase(cs, a, b) ==
    LET common == Ancestors(cs, a) \cap Ancestors(cs, b)
        best == {x \in common : \A y \in common : y \in Ancestors(cs, x)}
    IN  IF best = {} THEN 0 ELSE CHOOSE x \in best : TRUE

\* the result of a git command: the repository after it and its exit code
Ran(r, code) == [repo |-> r, code |-> code]

\* HEAD where the project directory is not a repository
NoHead == [ref |-> "", at |-> 0]
HasRepo(r) == r.head # NoHead
\* a repository without commits: HEAD names a branch that does not exist yet
Unborn(r) == HasRepo(r) /\ r.head.ref # "HEAD" /\ r.branches[r.head.ref] = 0

\* git rev-parse --abbrev-ref HEAD: the branch name, or HEAD when detached
AbbrevRefHead(r) == r.head.ref
\* its exit code: it fails outside a repository and when HEAD names no commit
RevParseHead(r) == Ran(r, IF HasRepo(r) /\ ~Unborn(r) THEN 0 ELSE 128)

\* git rev-parse --verify main
VerifyMain(r) == Ran(r, IF r.branches["main"] # 0 THEN 0 ELSE 128)

\* git branch main
GitBranchMain(r) ==
    IF r.branches["main"] # 0 THEN Ran(r, 128)
    ELSE Ran([r EXCEPT !.branches["main"] = HeadCommit(r)], 0)

\* The two-way merge of checkout and fast-forward: from tree `old` to tree
\* `new`, keeping local changes that the move does not touch.
TwoWay(r, old, new) ==
    IF r.index = Unmerged THEN [ok |-> FALSE, index |-> r.index, worktree |-> r.worktree]
    ELSE IF old = new THEN [ok |-> TRUE, index |-> r.index, worktree |-> r.worktree]
    ELSE IF r.index = new THEN [ok |-> TRUE, index |-> r.index, worktree |-> r.worktree]
    ELSE IF r.index = old /\ (r.worktree = r.index \/ r.worktree = 0)
         THEN [ok |-> TRUE, index |-> new, worktree |-> new]
    ELSE [ok |-> FALSE, index |-> r.index, worktree |-> r.worktree]

\* git checkout <branch>
GitCheckout(r, name) ==
    IF r.branches[name] = 0 THEN Ran(r, 1)
    ELSE LET tw == TwoWay(r, TreeOf(r, HeadCommit(r)), TreeOf(r, r.branches[name]))
         IN  IF ~tw.ok THEN Ran(r, 1)
             ELSE Ran([r EXCEPT !.head = [ref |-> name, at |-> 0],
                                !.index = tw.index,
                                !.worktree = tw.worktree,
                                !.mergeHead = 0], 0)

\* the fast-forward of the current branch to commit b
FastForward(r, b) ==
    LET tw == TwoWay(r, TreeOf(r, HeadCommit(r)), TreeOf(r, b))
    IN  IF ~tw.ok THEN Ran(r, 1)
        ELSE Ran([r EXCEPT !.branches[r.head.ref] = b,
                           !.index = tw.index,
                           !.worktree = tw.worktree], 0)

\* git merge --ff-only <branch>, run on a branch
GitMergeFFOnly(r, name) ==
    LET m == HeadCommit(r)
        b == r.branches[name]
    IN  IF b = 0 \/ r.mergeHead # 0 \/ r.index = Unmerged THEN Ran(r, 128)
        ELSE IF b \in Ancestors(r.commits, m) THEN Ran(r, 0)
        ELSE IF m \in Ancestors(r.commits, b) THEN FastForward(r, b)
        ELSE Ran(r, 128)

\* the three-way merge of the file: 0 stands for "conflict" in `clean`
ThreeWay(base, ours, theirs) ==
    IF ours = theirs THEN [clean |-> TRUE, tree |-> ours]
    ELSE IF theirs = base THEN [clean |-> TRUE, tree |-> ours]
    ELSE IF ours = base THEN [clean |-> TRUE, tree |-> theirs]
    ELSE [clean |-> FALSE, tree |-> ConflictMarkers]

\* git merge <branch>, run on a branch: up to date, fast-forward, or a true
\* merge that commits under the user's identity or stops at a conflict
GitMerge(r, name) ==
    LET m == HeadCommit(r)
        b == r.branches[name]
        base == MergeBase(r.commits, m, b)
        tw == ThreeWay(TreeOf(r, base), TreeOf(r, m), TreeOf(r, b))
        touched == ~tw.clean \/ tw.tree # TreeOf(r, m)
        new == Len(r.commits) + 1
    IN  IF b = 0 \/ r.mergeHead # 0 \/ r.index = Unmerged THEN Ran(r, 128)
        ELSE IF b \in Ancestors(r.commits, m) THEN Ran(r, 0)
        ELSE IF m \in Ancestors(r.commits, b) THEN FastForward(r, b)
        ELSE IF base = 0 THEN Ran(r, 128)
        ELSE IF r.index # TreeOf(r, m) THEN Ran(r, 2)
        ELSE IF touched /\ r.worktree # r.index THEN Ran(r, 2)
        ELSE IF ~tw.clean
             THEN Ran([r EXCEPT !.index = Unmerged,
                                !.worktree = ConflictMarkers,
                                !.mergeHead = b], 1)
        ELSE Ran([r EXCEPT !.commits = Append(@, [parents |-> <<m, b>>, tree |-> tw.tree,
                                                  author |-> UserName,
                                                  msg |-> <<"Merge branch", name>>]),
                           !.branches[r.head.ref] = new,
                           !.index = tw.tree,
                           !.worktree = IF touched THEN tw.tree ELSE @], 0)

\* git add .
GitAddAll(r) == Ran([r EXCEPT !.index = r.worktree], 0)

\* what git commit -m <message> finds: "ok" or the reason it refuses
CommitVerdict(r, message) ==
    IF r.index = Unmerged THEN "unmerged"
    ELSE IF r.mergeHead = 0 /\ r.index = TreeOf(r, HeadCommit(r)) THEN "nothing to commit"
    ELSE IF message = <<>> THEN "empty message"
    ELSE "ok"

\* git commit -m <message> under the identity `author`
GitCommit(r, author, message) ==
    LET verdict == CommitVerdict(r, message)
        new == Len(r.commits) + 1
        parents == IF r.mergeHead = 0 THEN <<HeadCommit(r)>>
                   ELSE <<HeadCommit(r), r.mergeHead>>
    IN  IF verdict = "unmerged" THEN Ran(r, 128)
        ELSE IF verdict # "ok" THEN Ran(r, 1)
        ELSE Ran([r EXCEPT !.commits = Append(@, [parents |-> parents, tree |-> r.index,
                                                  author |-> author, msg |-> message]),
                           !.branches[r.head.ref] = IF r.head.ref = "HEAD" THEN @ ELSE new,
                           !.head.at = IF r.head.ref = "HEAD" THEN new ELSE @,
                           !.mergeHead = 0], 0)

\* %h, %H and %aI of the first commits, computed once
Names ==
    [c \in 0..12 |-> [short |-> "c" \o ToString(c),
                      full |-> ("c" \o ToString(c)) \o "f00d",
                      date |-> "t" \o ToString(c)]]

\* %h and %H of a commit
ShortHash(c) == IF c \in DOMAIN Names THEN Names[c].short ELSE "c" \o ToString(c)
FullHash(c) == IF c \in DOMAIN Names THEN Names[c].full ELSE ShortHash(c) \o "f00d"

\* the commit a revision string names, 0 when it names none
Resolve(r, rev) ==
    LET named == {c \in 1..Len(r.commits) : rev = FullHash(c) \/ rev = ShortHash(c)}
    IN  IF named = {} THEN 0 ELSE CHOOSE c \in named : TRUE

\* git reset --hard <rev>: tracked files follow the commit, an untracked
\* file that the commit does not hold stays where it is
GitResetHard(r, rev) ==
    IF Resolve(r, rev) = 0 THEN Ran(r, 128)
    ELSE LET hash == Resolve(r, rev)
             tree == TreeOf(r, hash)
             untracked == r.index = 0 /\ r.worktree # 0
         IN  Ran([r EXCEPT !.branches[r.head.ref] = IF r.head.ref = "HEAD" THEN @ ELSE hash,
                           !.head.at = IF r.head.ref = "HEAD" THEN hash ELSE @,
                           !.index = tree,
                           !.worktree = IF untracked /\ tree = 0 THEN @ ELSE tree,
                           !.mergeHead = 0], 0)

(***************************************************************************)
(* The manager's operations.  Each returns the repository after it, the    *)
(* error it returns, the git commands it ran, and the cause of the result. *)
(* `fault` names a git command that the environment makes fail without     *)
(* effect (a lock file for add and reset, a rejecting hook for commit).    *)
(***************************************************************************)
Faults == {"none", "add", "commit", "reset"}

Done(r, err, cmds, cause) == [repo |-> r, err |-> err, cmds |-> cmds, cause |-> cause]

\* ensureFromBranch without the repair: it reports success wherever HEAD is
ensureMainBranchNoRepair(r) == Done(r, Nil, <<"rev-parse --abbrev-ref HEAD">>, "ok")

\* lines 175-181: the outcome of the regular merge
ensureMerged(currentBranch, merged, cmds) ==
    IF merged.code # 0
        THEN Done(merged.repo,
                  Wrap("failed to merge " \o currentBranch \o " into main",
                       ExitStatus(merged.code)),
                  cmds, "merge")
    ELSE Done(merged.repo, Nil, cmds, "ok")

\* ensureFallback without the fallback: a failed fast-forward is the error
ensureFallbackNone(currentBranch, r, ff, cmds) ==
    ensureMerged(currentBranch, ff, cmds)

\* lines 173-175: the regular merge runs only if the fast-forward failed
ensureFallback(currentBranch, r, ff, cmds) ==
    IF ff.code = 0 THEN Done(ff.repo, Nil, cmds, "ok")
    ELSE ensureMerged(currentBranch, GitMerge(r, currentBranch), Append(cmds, "merge"))

\* lines 166-173 without the test of line 171: from a detached HEAD, git merge
\* --ff-only HEAD runs on main and finds nothing to merge
ensureMergeDetachedToo(currentBranch, switched, cmds) ==
    IF switched.code # 0
        THEN Done(switched.repo,
                  Wrap("failed to checkout main branch", ExitStatus(switched.code)),
                  cmds, "checkout")
    ELSE IF currentBranch = "HEAD"
        THEN Done(switched.repo, Nil, Append(cmds, "merge --ff-only"), "ok")
    ELSE ensureFallback(currentBranch, switched.repo,
                        GitMergeFFOnly(switched.repo, currentBranch),
                        Append(cmds, "merge --ff-only"))

\* lines 166-173: after the checkout, a branch (not a detached HEAD) is merged
ensureMerge(currentBranch, switched, cmds) ==
    IF switched.code # 0
        THEN Done(switched.repo,
                  Wrap("failed to checkout main branch", ExitStatus(switched.code)),
                  cmds, "checkout")
    ELSE IF currentBranch = "HEAD" THEN Done(switched.repo, Nil, cmds, "ok")
    ELSE ensureFallback(currentBranch, switched.repo,
                        GitMergeFFOnly(switched.repo, currentBranch),
                        Append(cmds, "merge --ff-only"))

\* lines 160-166: after main exists, switch to it
ensureSwitch(currentBranch, created, cmds) ==
    IF created.code # 0
        THEN Done(created.repo,
                  Wrap("failed to create main branch", ExitStatus(created.code)),
                  cmds, "branch")
    ELSE ensureMerge(currentBranch, GitCheckout(created.repo, "main"),
                     Append(cmds, "checkout main"))

\* ensureFromBranch without the early return of lines 151-154
ensureMainBranchNoEarlyReturn(r) ==
    IF VerifyMain(r).code # 0
        THEN ensureSwitch(AbbrevRefHead(r), GitBranchMain(r),
                          <<"rev-parse --abbrev-ref HEAD", "rev-parse --verify main",
                            "branch main">>)
    ELSE ensureSwitch(AbbrevRefHead(r), Ran(r, 0),
                      <<"rev-parse --abbrev-ref HEAD", "rev-parse --verify main">>)

\* lines 151-181: the current branch is known
ensureFromBranch(r) ==
    IF AbbrevRefHead(r) = "main"
        THEN Done(r, Nil, <<"rev-parse --abbrev-ref HEAD">>, "ok")
    ELSE IF VerifyMain(r).code # 0
        THEN ensureSwitch(AbbrevRefHead(r), GitBranchMain(r),
                          <<"rev-parse --abbrev-ref HEAD", "rev-parse --verify main",
                            "branch main">>)
    ELSE ensureSwitch(AbbrevRefHead(r), Ran(r, 0),
                      <<"rev-parse --abbrev-ref HEAD", "rev-parse --verify main">>)

\* lines 145-148: the current branch is asked for first
ensureMainBranch(r) ==
    IF RevParseHead(r).code # 0
        THEN Done(r, Wrap("failed to get current branch", ExitStatus(RevParseHead(r).code)),
                  <<"rev-parse --abbrev-ref HEAD">>, "rev-parse")
    ELSE ensureFromBranch(r)

\* lines 48-52: the outcome of the commit; r is the repository it ran on
CreateCommitReturn(r, committed, cmds, message, fault) ==
    IF committed.code # 0
        THEN Done(committed.repo,
                  Wrap("failed to create commit", ExitStatus(committed.code)), cmds,
                  IF fault = "commit" THEN "hook" ELSE CommitVerdict(r, message))
    ELSE Done(committed.repo, Nil, cmds, "ok")

\* lines 35-48 without the environment of lines 41-46: git commits as the user
CreateCommitCommitAsUser(staged, cmds, message, fault) ==
    IF staged.code # 0
        THEN Done(staged.repo, Wrap("failed to stage changes", ExitStatus(staged.code)),
                  cmds, "lock")
    ELSE CreateCommitReturn(staged.repo,
                            IF fault = "commit" THEN Ran(staged.repo, 1)
                            ELSE GitCommit(staged.repo, UserName, message),
                            Append(cmds, "commit"), message, fault)

\* lines 35-48: after staging, commit as Layrr
CreateCommitCommit(staged, cmds, message, fault) ==
    IF staged.code # 0
        THEN Done(staged.repo, Wrap("failed to stage changes", ExitStatus(staged.code)),
                  cmds, "lock")
    ELSE CreateCommitReturn(staged.repo,
                            IF fault = "commit" THEN Ran(staged.repo, 1)
                            ELSE GitCommit(staged.repo, LayrrName, message),
                            Append(cmds, "commit"), message, fault)

\* CreateCommitStage without the staging step: only what is already staged is committed
CreateCommitSkipStage(ensured, message, fault) ==
    IF ensured.err # Nil
        THEN Done(ensured.repo, Wrap("failed to ensure main branch", ensured.err),
                  ensured.cmds, ensured.cause)
    ELSE CreateCommitCommit(Ran(ensured.repo, 0), ensured.cmds, message, fault)

\* lines 30-35 going on to stage after ensureMainBranch has failed
CreateCommitStageAnyway(ensured, message, fault) ==
    CreateCommitCommit(IF fault = "add" THEN Ran(ensured.repo, 128)
                       ELSE GitAddAll(ensured.repo),
                       Append(ensured.cmds, "add ."), message, fault)

\* lines 30-35: after ensureMainBranch, stage everything
CreateCommitStage(ensured, message, fault) ==
    IF ensured.err # Nil
        THEN Done(ensured.repo, Wrap("failed to ensure main branch", ensured.err),
                  ensured.cmds, ensured.cause)
    ELSE CreateCommitCommit(IF fault = "add" THEN Ran(ensured.repo, 128)
                            ELSE GitAddAll(ensured.repo),
                            Append(ensured.cmds, "add ."), message, fault)

CreateCommit(r, message, fault) == CreateCommitStage(ensureMainBranch(r), message, fault)

\* line 108: the outcome of the reset is returned as it is
CheckoutCommitReturn(reset, cmds, fault) ==
    IF reset.code # 0
        THEN Done(reset.repo, ExitStatus(reset.code), cmds,
                  IF fault = "reset" THEN "lock" ELSE "bad revision")
    ELSE Done(reset.repo, Nil, cmds, "ok")

\* lines 102-108: after ensureMainBranch, reset main to the commit
CheckoutCommitReset(ensured, commitHash, fault) ==
    IF ensured.err # Nil
        THEN Done(ensured.repo, Wrap("failed to ensure main branch", ensured.err),
                  ensured.cmds, ensured.cause)
    ELSE CheckoutCommitReturn(IF fault = "reset" THEN Ran(ensured.repo, 128)
                              ELSE GitResetHard(ensured.repo, commitHash),
                              Append(ensured.cmds, "reset --hard"), fault)

CheckoutCommit(r, commitHash, fault) ==
    CheckoutCommitReset(ensureMainBranch(r), commitHash, fault)

(***************************************************************************)
(* GetCommitHistory: git log --all --date-order -<limit> with the format   *)
(* %H|%h|%an|%aI|%s, one line per commit, parsed back line by line.        *)
(* A line is a sequence of tokens.                                         *)
(***************************************************************************)
\* --all: the commits reachable from the refs and from HEAD
ReachableFromRefs(r) ==
    UNION {Ancestors(r.commits, c) :
             c \in ({r.branches[b] : b \in BranchNames} \cup {HeadCommit(r)}) \ {0}}

\* --date-order: the latest commit date first
RECURSIVE NewestFirst(_)
NewestFirst(S) ==
    IF S = {} THEN <<>>
    ELSE LET newest == CHOOSE c \in S : \A d \in S : d <= c
         IN  <<newest>> \o NewestFirst(S \ {newest})

FirstN(seq, n) == SubSeq(seq, 1, IF n < Len(seq) THEN n ELSE Len(seq))

\* %aI of a commit
DateToken(c) == IF c \in DOMAIN Names THEN Names[c].date ELSE "t" \o ToString(c)

\* --pretty=format:%H|%h|%an|%aI|%s
FormatLine(r, c) ==
    <<FullHash(c), "|", ShortHash(c), "|">> \o r.commits[c].author
        \o <<"|", DateToken(c), "|">> \o r.commits[c].msg

GitLogAll(r, limit) ==
    LET order == FirstN(NewestFirst(ReachableFromRefs(r)), limit)
    IN  IF ~HasRepo(r) THEN <<>> ELSE [i \in 1..Len(order) |-> FormatLine(r, order[i])]

\* the exit code of git log: it fails outside a repository
GitLogCode(r) == IF HasRepo(r) THEN 0 ELSE 128

\* strings.SplitN(line, "|", n)
RECURSIVE SplitN(_, _)
SplitN(line, n) ==
    LET seps == {i \in 1..Len(line) : line[i] = "|"}
        first == CHOOSE i \in seps : \A j \in seps : i <= j
    IN  IF n <= 1 \/ seps = {} THEN <<line>>
        ELSE <<SubSeq(line, 1, first - 1)>> \o SplitN(SubSeq(line, first + 1, Len(line)), n - 1)

\* the text of a field: its tokens, joined
RECURSIVE Text(_)
Text(tokens) == IF tokens = <<>> THEN "" ELSE Head(tokens) \o Text(Tail(tokens))

\* ParseLines giving up at the first line that does not split into five fields
RECURSIVE ParseLinesUntilMalformed(_)
ParseLinesUntilMalformed(lines) ==
    IF lines = <<>> \/ Len(SplitN(Head(lines), 5)) # 5 THEN <<>>
    ELSE <<[Hash |-> Text(SplitN(Head(lines), 5)[1]),
            ShortHash |-> Text(SplitN(Head(lines), 5)[2]),
            Author |-> Text(SplitN(Head(lines), 5)[3]),
            Date |-> Text(SplitN(Head(lines), 5)[4]),
            Message |-> Text(SplitN(Head(lines), 5)[5])]>>
             \o ParseLinesUntilMalformed(Tail(lines))

\* lines 74-95: the lines of the output become commits
RECURSIVE ParseLines(_)
ParseLines(lines) ==
    IF lines = <<>> THEN <<>>
    ELSE LET line == Head(lines)
             parts == SplitN(line, 5)
         IN  IF line = <<>> \/ Len(parts) # 5 THEN ParseLines(Tail(lines))
             ELSE <<[Hash |-> Text(parts[1]), ShortHash |-> Text(parts[2]),
                     Author |-> Text(parts[3]), Date |-> Text(parts[4]),
                     Message |-> Text(parts[5])]>> \o ParseLines(Tail(lines))

GetCommitHistory(r, limit) == ParseLines(GitLogAll(r, limit))

\* lines 67-70: the error GetCommitHistory returns
GetCommitHistoryErr(r) ==
    IF GitLogCode(r) # 0 THEN Wrap("failed to get commit history", ExitStatus(GitLogCode(r)))
    ELSE Nil

\* the limit the history dialog asks for
HistoryLimit == 50

(***************************************************************************)
(* The specification of the checkpoint manager.                            *)
(***************************************************************************)
\* c1 is the root; c2 changes the file, c3 changes it another way, c4 leaves it alone
InitialHistory ==
    << [parents |-> <<>>, tree |-> 0, author |-> UserName, msg |-> <<"initial">>],
       [parents |-> <<1>>, tree |-> 1, author |-> UserName, msg |-> <<"one">>],
       [parents |-> <<1>>, tree |-> 2, author |-> UserName, msg |-> <<"two">>],
       [parents |-> <<1>>, tree |-> 0, author |-> UserName, msg |-> <<"other files">>] >>

\* where main may be at the start (0: main does not exist), and where feature is
InitialMain == {0, 1, 2, 4}
InitialFeature == Len(InitialHistory) - 1

MaxCommits == Len(InitialHistory) + MaxNewCommits

OnBranch(name) == [ref |-> name, at |-> 0]
DetachedAt(c) == [ref |-> "HEAD", at |-> c]

\* a repository with main absent, behind or beside feature; HEAD on main, on
\* feature or detached; a clean working tree
WithHistory ==
    /\ commits = InitialHistory
    /\ \E m \in InitialMain :
          branches = [b \in BranchNames |-> IF b = "main" THEN m ELSE InitialFeature]
    /\ head \in {OnBranch(b) : b \in {x \in BranchNames : branches[x] # 0}}
                \cup {DetachedAt(c) : c \in 1..Len(InitialHistory)}
    /\ index = InitialHistory[HeadCommit([head |-> head, branches |-> branches])].tree
    /\ worktree = index

\* a project directory that is no repository, or one right after git init
WithoutHistory ==
    /\ commits = <<>>
    /\ branches = [b \in BranchNames |-> 0]
    /\ head \in {NoHead, OnBranch("main")}
    /\ index = 0
    /\ worktree = 0

GitCallers == 1..MaxGitCallers

GitInit ==
    /\ WithHistory \/ WithoutHistory
    /\ mergeHead = 0
    /\ lastRes = NoCall
    /\ callPc = [p \in GitCallers |-> "idle"]

SetRepo(r) ==
    /\ commits' = r.commits
    /\ branches' = r.branches
    /\ head' = r.head
    /\ index' = r.index
    /\ worktree' = r.worktree
    /\ mergeHead' = r.mergeHead
    /\ UNCHANGED <<bridgeVars, wsVars, dialogVars>>

\* the agent or the user edits, creates or deletes the file
Edit ==
    \E c \in Contents :
        /\ c # worktree
        /\ worktree' = c
        /\ lastRes' = NoCall
        /\ UNCHANGED <<commits, branches, head, index, mergeHead, callPc, bridgeVars, wsVars, dialogVars>>

\* the calls tried: every message without a fault, one message with each fault
CreateCommitInputs ==
    {<<message, "none">> : message \in Messages}
        \cup {<<<<"fix", "|", "typo">>, fault>> : fault \in {"add", "commit"}}

CreateCommitCall ==
    \E in \in CreateCommitInputs :
        LET ensured == ensureMainBranch(Repo)
            res == CreateCommitStage(ensured, in[1], in[2])
        IN  /\ Len(res.repo.commits) <= MaxCommits
            /\ SetRepo(res.repo)
            /\ lastRes' = [op |-> "CreateCommit", msg |-> in[1], hash |-> "",
                           fault |-> in[2], err |-> res.err,
                           cmds |-> res.cmds, ensured |-> ensured.err]
            /\ UNCHANGED callPc

\* the calls tried: every hash of the history and a hash that names no commit
\* without a fault, the hash of the first commit with a failing reset
CheckoutCommitInputs ==
    {<<FullHash(c), "none">> : c \in 1..Len(commits)}
        \cup {<<"deadbeef", "none">>, <<FullHash(1), "reset">>}

CheckoutCommitCall ==
    \E in \in CheckoutCommitInputs :
        LET ensured == ensureMainBranch(Repo)
            res == CheckoutCommitReset(ensured, in[1], in[2])
        IN  /\ Len(res.repo.commits) <= MaxCommits
            /\ SetRepo(res.repo)
            /\ lastRes' = [op |-> "CheckoutCommit", msg |-> <<>>, hash |-> in[1],
                           fault |-> in[2], err |-> res.err,
                           cmds |-> res.cmds, ensured |-> ensured.err]
            /\ UNCHANGED callPc

GetCommitHistoryCall ==
    /\ lastRes' = [op |-> "GetCommitHistory", msg |-> <<>>, hash |-> "",
                   fault |-> "none", err |-> GetCommitHistoryErr(Repo),
                   cmds |-> <<"log --all">>, ensured |-> Nil]
    /\ UNCHANGED <<commits, branches, head, index, worktree, mergeHead, callPc,
                   bridgeVars, wsVars, dialogVars>>

\* lines that are not of the log format, as git prints them around the formatted
\* ones (signature checks, for one): one field and two fields
StrayLines == {<<"gpg:", " ", "Good", " ", "signature">>, <<"note", "|", "x">>}

\* the limits GetCommitHistory is called with
Limits == {1, 2, HistoryLimit}

\* `line` put into `lines` after the first k of them
InsertAt(lines, k, line) == SubSeq(lines, 1, k) \o <<line>> \o SubSeq(lines, k + 1, Len(lines))

\* what git log prints: the formatted lines, or for the limit of the history
\* dialog the formatted lines with a stray line before or after the first
LogOutputs(r, limit) ==
    {GitLogAll(r, limit)}
        \cup {InsertAt(GitLogAll(r, limit), k, line) :
                 k \in {j \in {0, 1} : limit = HistoryLimit /\ j <= Len(GitLogAll(r, limit))},
                 line \in StrayLines}


GitNext ==
    \/ Edit
    \/ CreateCommitCall
    \/ CheckoutCommitCall
    \/ GetCommitHistoryCall

(***************************************************************************)
(* The manager called by several callers at once.  GitManager holds the    *)
(* project directory and nothing else (lines 20-22); each operation runs   *)
(* its git commands one after the other, and between two commands of one   *)
(* call a command of another call may run.  The commands of                *)
(* ensureMainBranch are taken as one step.                                 *)
(***************************************************************************)
StepMessage == <<"fix", "|", "typo">>
StepTarget == FullHash(1)

\* lines 28-32: CreateCommit starts with ensureMainBranch; git add follows
BeginCreateCommit ==
    \E p \in GitCallers :
        LET ensured == ensureMainBranch(Repo)
        IN  /\ callPc[p] = "idle"
            /\ Len(ensured.repo.commits) <= MaxCommits
            /\ SetRepo(ensured.repo)
            /\ IF ensured.err # Nil
               THEN /\ lastRes' = [op |-> "CreateCommit", msg |-> StepMessage, hash |-> "",
                                   fault |-> "none",
                                   err |-> Wrap("failed to ensure main branch", ensured.err),
                                   cmds |-> ensured.cmds, ensured |-> ensured.err]
                    /\ UNCHANGED callPc
               ELSE /\ lastRes' = NoCall
                    /\ callPc' = [callPc EXCEPT ![p] = "add"]

\* lines 100-104: CheckoutCommit starts with ensureMainBranch; git reset follows
BeginCheckoutCommit ==
    \E p \in GitCallers :
        LET ensured == ensureMainBranch(Repo)
        IN  /\ callPc[p] = "idle"
            /\ Len(ensured.repo.commits) <= MaxCommits
            /\ SetRepo(ensured.repo)
            /\ IF ensured.err # Nil
               THEN /\ lastRes' = [op |-> "CheckoutCommit", msg |-> <<>>,
                                   hash |-> StepTarget, fault |-> "none",
                                   err |-> Wrap("failed to ensure main branch", ensured.err),
                                   cmds |-> ensured.cmds, ensured |-> ensured.err]
                    /\ UNCHANGED callPc
               ELSE /\ lastRes' = NoCall
                    /\ callPc' = [callPc EXCEPT ![p] = "reset"]

\* lines 35-37: git add .
StepAdd ==
    \E p \in GitCallers :
        /\ callPc[p] = "add"
        /\ SetRepo(GitAddAll(Repo).repo)
        /\ lastRes' = NoCall
        /\ callPc' = [callPc EXCEPT ![p] = "commit"]

\* lines 40-52: git commit, and the call returns
StepCommit ==
    \E p \in GitCallers :
        LET done == CreateCommitReturn(Repo, GitCommit(Repo, LayrrName, StepMessage),
                                       <<"commit">>, StepMessage, "none")
        IN  /\ callPc[p] = "commit"
            /\ Len(done.repo.commits) <= MaxCommits
            /\ SetRepo(done.repo)
            /\ lastRes' = [op |-> "CreateCommit", msg |-> StepMessage, hash |-> "",
                           fault |-> "none", err |-> done.err,
                           cmds |-> done.cmds, ensured |-> Nil]
            /\ callPc' = [callPc EXCEPT ![p] = "idle"]

\* line 108: git reset --hard, and the call returns
StepReset ==
    \E p \in GitCallers :
        LET done == CheckoutCommitReturn(GitResetHard(Repo, StepTarget),
                                         <<"reset --hard">>, "none")
        IN  /\ callPc[p] = "reset"
            /\ SetRepo(done.repo)
            /\ lastRes' = [op |-> "CheckoutCommit", msg |-> <<>>, hash |-> StepTarget,
                           fault |-> "none", err |-> done.err,
                           cmds |-> done.cmds, ensured |-> Nil]
            /\ callPc' = [callPc EXCEPT ![p] = "idle"]

GitStepNext ==
    \/ Edit
    \/ BeginCreateCommit
    \/ BeginCheckoutCommit
    \/ StepAdd
    \/ StepCommit
    \/ StepReset

(***************************************************************************)
(* Bridge.HandleMessage, bridge.go lines 56-84.  The bridge formats the    *)
(* message and hands it to claudeManager.SendMessage, which returns when   *)
(* the agent has finished the instruction.  The bridge itself takes no     *)
(* lock.  The claude package is not part of the sources at hand; the       *)
(* session is modelled from the specification's section 5: a lock held by  *)
(* the session, acquired before the instruction is submitted and released  *)
(* on completion or error, with a second caller waiting for it.            *)
(***************************************************************************)
(***************************************************************************)
(* Bridge.formatMessage, bridge.go lines 87-144.  A Go string is a         *)
(* sequence of bytes: len counts bytes and s[:n] cuts at a byte.  A byte   *)
(* is written as a one-character string; the two bytes of a character      *)
(* outside ASCII are written "C3" and "A9" (the letter e with an acute     *)
(* accent in UTF-8).                                                       *)
(***************************************************************************)
NL == "\n"
LeadByte == "C3"
ContinuationByte == "A9"
Accented == <<LeadByte, ContinuationByte>>
WhiteSpace == {" ", NL, "\t", "\r"}

\* n times the bytes of `piece`
RECURSIVE Repeat(_, _)
Repeat(piece, n) == IF n <= 0 THEN <<>> ELSE piece \o Repeat(piece, n - 1)

\* %d printing the last digit only
LastDigit(n) == <<ToString(n % 10)>>

\* the decimal digits of a natural number, as %d prints it
RECURSIVE Digits(_)
Digits(n) == IF n < 10 THEN <<ToString(n)>> ELSE Digits(n \div 10) \o <<ToString(n % 10)>>

\* strings.ReplaceAll(s, "\n", " ")
ReplaceNewlines(s) == [i \in 1..Len(s) |-> IF s[i] = NL THEN " " ELSE s[i]]

\* strings.TrimSpace
RECURSIVE TrimLeft(_)
TrimLeft(s) == IF s # <<>> /\ Head(s) \in WhiteSpace THEN TrimLeft(Tail(s)) ELSE s
RECURSIVE TrimRight(_)
TrimRight(s) ==
    IF s # <<>> /\ s[Len(s)] \in WhiteSpace THEN TrimRight(SubSeq(s, 1, Len(s) - 1)) ELSE s
TrimSpace(s) == TrimRight(TrimLeft(s))

\* strings.Join(parts, " ")
RECURSIVE Join(_)
Join(parts) ==
    IF parts = <<>> THEN <<>>
    ELSE IF Len(parts) = 1 THEN parts[1]
    ELSE parts[1] \o <<" ">> \o Join(Tail(parts))

Ellipsis == <<".", ".", ".">>

\* lines 113-115 and 123-125: if len(s) > limit { s = s[:limit] + "..." }
Truncate(s, limit) == IF Len(s) > limit THEN SubSeq(s, 1, limit) \o Ellipsis ELSE s

\* lines 111-112 and 121-122
Collapse(s) == TrimSpace(ReplaceNewlines(s))

\* lines 97-98 with len(msg.Area.Elements) for the count
AreaClauseByLength(area) ==
    <<"(", "S", "e", "l", "e", "c", "t", "e", "d", " ">> \o Digits(Len(area.Elements))
        \o <<" ", "e", "l", "e", "m", "e", "n", "t", "s", " ", "i", "n", " ">>
        \o Digits(area.Width) \o <<"x">> \o Digits(area.Height)
        \o <<" ", "a", "r", "e", "a", ":">>

\* lines 97-98: fmt.Sprintf("(Selected %d elements in %dx%d area:", ...)
AreaClause(area) ==
    <<"(", "S", "e", "l", "e", "c", "t", "e", "d", " ">> \o Digits(area.ElementCount)
        \o <<" ", "e", "l", "e", "m", "e", "n", "t", "s", " ", "i", "n", " ">>
        \o Digits(area.Width) \o <<"x">> \o Digits(area.Height)
        \o <<" ", "a", "r", "e", "a", ":">>

\* lines 103-129: the descriptor of one element
ElementDesc(el) ==
    <<"[">> \o el.Selector
        \o (IF el.InnerText # <<>>
            THEN <<" ", "t", "e", "x", "t", ":", "\"">>
                     \o Truncate(Collapse(el.InnerText), 50) \o <<"\"">>
            ELSE <<>>)
        \o (IF el.OuterHTML # <<>>
            THEN <<" ", "h", "t", "m", "l", ":">> \o Truncate(Collapse(el.OuterHTML), 100)
            ELSE <<>>)
        \o <<"]">>

\* line 135: fmt.Sprintf("[+%d more elements]", n)
MoreElements(n) ==
    <<"[", "+">> \o Digits(n)
        \o <<" ", "m", "o", "r", "e", " ", "e", "l", "e", "m", "e", "n", "t", "s", "]">>

\* line 134 without the test of the length
CapReachedAtTwenty(i, elements) == i >= 19

\* line 134 with the cap one element later
CapReachedLate(i, elements) == i >= 20 /\ Len(elements) > 20

\* line 134: the test after the descriptor of element i (counted from 0)
CapReached(i, elements) == i >= 19 /\ Len(elements) > 20

\* lines 101-138 with the summary token appended whatever the selection holds
FormatElementsAlwaysSummed(elements, i, parts) ==
    Append(parts, MoreElements(Len(elements)))

\* lines 101-138: the loop over the elements, from index i (counted from 0) on
RECURSIVE FormatElements(_, _, _)
FormatElements(elements, i, parts) ==
    IF i >= Len(elements) THEN parts
    ELSE IF CapReached(i, elements)
         THEN parts \o <<ElementDesc(elements[i + 1]), MoreElements(Len(elements) - 20)>>
    ELSE FormatElements(elements, i + 1, Append(parts, ElementDesc(elements[i + 1])))

\* lines 87-144
formatMessage(msg) ==
    Join(FormatElements(msg.Area.Elements, 0, <<msg.Instruction, AreaClause(msg.Area)>>)
             \o << <<")">> >>)

Callers == 1..MaxCallers

NotCalled == <<"not called">>
AgentError == <<"agent session failed">>
NoMessage == <<"no message">>
NotFormatted == <<"not formatted">>

\* the session's lock, ignored: every caller is let in at once
SessionLockFreeIgnored(lock) == TRUE

\* the session's lock can be taken
SessionLockFree(lock) == lock = 0

\* lines 77-83 with the agent's error dropped
HandleMessageSwallow(err) == Nil

\* lines 77-83: what HandleMessage returns for what SendMessage returned
HandleMessageReturn(err) ==
    IF err # Nil THEN Wrap("failed to send message to Claude Code", err) ELSE Nil

\* ElementInfo, lines 12-19: the fields formatMessage reads
Element(selector, text, html) ==
    [Selector |-> selector, InnerText |-> text, OuterHTML |-> html]

\* the selector of the k-th captured element
SelectorOf(k) == <<"#", "e">> \o Digits(k)

\* n captured elements, each with a short text and a short markup
Captured(n) ==
    [k \in 1..n |-> Element(SelectorOf(k), <<"t">> \o Digits(k), <<"<", "p", ">">>)]

\* Message and AreaInfo, lines 22-37: the fields formatMessage reads
MessageOf(id, instruction, count, elements) ==
    [ID |-> id, Instruction |-> instruction,
     Area |-> [ElementCount |-> count, Width |-> 10, Height |-> 20, Elements |-> elements]]

PlainInstruction == <<"f", "i", "x">>
TwoLineInstruction == <<"f", "i", "x", NL, "i", "t">>

\* the messages the callers of HandleMessage pass
BridgeMessages ==
    {MessageOf(1, PlainInstruction, 0, <<>>), MessageOf(2, TwoLineInstruction, 1, Captured(1))}

BridgeCallsInit ==
    /\ pc = [c \in Callers |-> "idle"]
    /\ sessionLock = 0
    /\ processing = {}
    /\ result = [c \in Callers |-> NotCalled]
    /\ msgOf = [c \in Callers |-> NoMessage]
    /\ formattedMsg = [c \in Callers |-> NotFormatted]
    /\ submitted = [c \in Callers |-> <<>>]
    /\ sendResult = [c \in Callers |-> NotCalled]

BridgeInit ==
    /\ BridgeCallsInit
    /\ fmtInput = NoMessage
    /\ fmtOutput = NotFormatted

\* lines 56-73: a caller enters HandleMessage; the message is formatted and logged
HandleMessageEnter(c) ==
    \E msg \in BridgeMessages :
        /\ pc[c] = "idle"
        /\ msgOf' = [msgOf EXCEPT ![c] = msg]
        /\ formattedMsg' = [formattedMsg EXCEPT ![c] = formatMessage(msg)]
        /\ submitted' = [submitted EXCEPT ![c] = <<>>]
        /\ pc' = [pc EXCEPT ![c] = "sending"]
        /\ UNCHANGED <<sessionLock, processing, result, sendResult, fmtVars, gitVars, wsVars, dialogVars>>

\* line 75, the call of SendMessage: the caller waits for the session's lock, takes
\* it and submits the instruction
SendMessageSubmit(c) ==
    /\ pc[c] = "sending"
    /\ SessionLockFree(sessionLock)
    /\ sessionLock' = c
    /\ processing' = processing \cup {c}
    /\ submitted' = [submitted EXCEPT ![c] = Append(@, formattedMsg[c])]
    /\ pc' = [pc EXCEPT ![c] = "inSession"]
    /\ UNCHANGED <<result, msgOf, formattedMsg, sendResult, fmtVars, gitVars, wsVars, dialogVars>>

\* lines 75-83: the agent finishes or fails, the lock is released, SendMessage and
\* then HandleMessage return
SendMessageReturn(c) ==
    \E err \in {Nil, AgentError} :
        /\ pc[c] = "inSession"
        /\ processing' = processing \ {c}
        /\ sessionLock' = IF sessionLock = c THEN 0 ELSE sessionLock
        /\ sendResult' = [sendResult EXCEPT ![c] = err]
        /\ result' = [result EXCEPT ![c] = HandleMessageReturn(err)]
        /\ pc' = [pc EXCEPT ![c] = "idle"]
        /\ UNCHANGED <<msgOf, formattedMsg, submitted, fmtVars, gitVars, wsVars, dialogVars>>

BridgeNext ==
    \/ \E c \in Callers : HandleMessageEnter(c)
    \/ \E c \in Callers : SendMessageSubmit(c)
    \/ \E c \in Callers : SendMessageReturn(c)

(***************************************************************************)
(* formatMessage as a function of its input: the messages it is applied to *)
(* and the steps that apply it.                                            *)
(***************************************************************************)
\* texts whose length in bytes lies around `limit`
TextsAround(limit) ==
    {Repeat(<<"a">>, n) : n \in (limit - MaxOver)..(limit + MaxOver)}
        \cup {<<" ", NL>> \o Repeat(<<"a">>, limit) \o <<NL, " ">>,
              Repeat(<<"a">>, limit - 2) \o <<NL, "b">>,
              <<"a">> \o Repeat(Accented, limit \div 2)}
        \cup {Repeat(Accented, n) : n \in (limit \div 2)..(limit \div 2 + MaxOver)}

InnerTexts == {<<>>, <<" ">>, <<"h", "i", NL, "y", "o", "u">>} \cup TextsAround(50)
OuterHTMLs == {<<>>, <<"<", "p", ">", NL, "<", "/", "p", ">">>} \cup TextsAround(100)

\* one captured element with every inner text and markup
TextMessages ==
    {MessageOf(1, PlainInstruction, 1, <<Element(SelectorOf(1), text, html)>>) :
        text \in InnerTexts, html \in OuterHTMLs}

\* selections of 0 up to 20 + MaxMore elements
SizeMessages ==
    {MessageOf(1, instruction, 3, <<>>) : instruction \in {PlainInstruction, TwoLineInstruction}}
        \cup {MessageOf(1, instruction, n, Captured(n)) :
                instruction \in {PlainInstruction, TwoLineInstruction},
                n \in {0, 1, 2, 19} \cup 20..(20 + MaxMore)}

\* payloads whose elementCount is not the number of elements they carry
MismatchMessages ==
    {MessageOf(1, PlainInstruction, count, Captured(n)) :
        count \in {0, 5, 25}, n \in {1, 2, 21}}

\* a selector that spans two lines
SelectorMessages ==
    {MessageOf(1, PlainInstruction, 1, <<Element(<<"d", "i", "v", NL, "p">>, <<>>, <<>>)>>)}

\* the selection of a card and its button, 300 by 120 pixels
ExampleInstruction ==
    <<"m", "a", "k", "e", " ", "t", "h", "e", " ", "b", "u", "t", "t", "o", "n", " ",
      "p", "u", "r", "p", "l", "e">>
CardSelector ==
    <<"d", "i", "v", "#", "c", "a", "r", "d", "-", "1", ".", "c", "a", "r", "d">>
BuySelector ==
    <<"b", "u", "t", "t", "o", "n", ".", "b", "u", "y">>
ExampleMessage ==
    [ID |-> 7, Instruction |-> ExampleInstruction,
     Area |-> [ElementCount |-> 2, Width |-> 300, Height |-> 120,
               Elements |-> <<Element(CardSelector, <<"C", "a", "r", "d">>,
                                      <<"<", "d", "i", "v", ">">>),
                              Element(BuySelector, <<"B", "u", "y">>, <<>>)>>]]

FormatInputs ==
    TextMessages \cup SizeMessages \cup SelectorMessages \cup MismatchMessages
        \cup {ExampleMessage}

\* formatMessage is applied to the message at hand
FormatMessageCall ==
    /\ fmtOutput = NotFormatted
    /\ fmtOutput' = formatMessage(fmtInput)
    /\ UNCHANGED <<fmtInput, bridgeCalls, gitVars, wsVars, dialogVars>>

\* the next message arrives
NextMessage ==
    /\ fmtOutput # NotFormatted
    /\ fmtInput' \in FormatInputs
    /\ fmtOutput' = NotFormatted
    /\ UNCHANGED <<bridgeCalls, gitVars, wsVars, dialogVars>>

FormatNext ==
    \/ FormatMessageCall
    \/ NextMessage

(***************************************************************************)
(* useWebSocket, useWebSocket.ts lines 7-133.  Sockets are told apart by   *)
(* what the hook can tell apart: the one wsRef.current names, and the live *)
(* ones it no longer names, whose handlers still run.  A closed socket has *)
(* no further events.  Timers are told apart by their delay and by whether *)
(* reconnectTimeoutRef still names them.  Any pending timer may fire next. *)
(***************************************************************************)
maxReconnectAttempts == 5
baseReconnectDelay == 1000

URLs == {"", "http://localhost:9998"}
LiveStates == {"connecting", "open", "errored", "closing"}
Delays == {baseReconnectDelay * 2^k : k \in 0..(maxReconnectAttempts - 1)}
Ids == 1..MaxTime
Terminal == {"complete", "error"}
Malformed == [id |-> 0, status |-> "not JSON"]
Envelopes == [id : 0..MaxTime, status : {"pending"} \cup Terminal]

NoOrphans == [s \in LiveStates |-> 0]
NoTimers == [d \in Delays |-> 0]
NoHandlers == [i \in Ids |-> 0]
NoEvent == [type |-> "none", id |-> 0, status |-> "", invoked |-> <<>>,
            threw |-> FALSE, warned |-> FALSE, registered |-> 0, sent |-> FALSE,
            attempts |-> 0]

\* how many things a counting function counts
RECURSIVE Total(_)
Total(f) ==
    IF DOMAIN f = {} THEN 0
    ELSE LET x == CHOOSE y \in DOMAIN f : TRUE
         IN  f[x] + Total([y \in DOMAIN f \ {x} |-> f[y]])

\* the sockets and timers left behind when the effect runs again: the live sockets
\* and the pending timers its cleanup did not clear
LeftBehind == Total(orphans) + Total(otherTimers) + (IF ws \in LiveStates THEN 1 ELSE 0)

\* a socket is named "ws" when wsRef names it and by its readyState otherwise
Sockets == {"ws"} \cup {s \in LiveStates : orphans[s] > 0}
ReadyState(sock) == IF sock = "ws" THEN ws ELSE sock

\* the socket's readyState changes, to "closed" included
Move(sock, to) ==
    IF sock = "ws" THEN ws' = to /\ orphans' = orphans
    ELSE /\ ws' = ws
         /\ orphans' = [s \in LiveStates |->
                           orphans[s] - (IF s = sock THEN 1 ELSE 0)
                                      + (IF s = to THEN 1 ELSE 0)]

\* line 71 finding a handler under every id
HasAlways(handlers, id) == TRUE

\* Map.has on messageHandlersRef.current
Has(handlers, id) == id \in DOMAIN handlers /\ handlers[id] # 0

\* lines 76-78 left out: the handler stays registered whatever the status
KeepHandler(handlers, data) == handlers

\* lines 76-78 deleting the handler whatever the status
DeleteAlways(handlers, data) == [handlers EXCEPT ![data.id] = 0]

\* lines 76-78: the handler is deleted on a terminal status
DeleteIfTerminal(handlers, data) ==
    IF data.status \in Terminal THEN [handlers EXCEPT ![data.id] = 0] ELSE handlers

\* lines 42-55 and 114: connect() builds a socket and stores it in wsRef; `old` is
\* the readyState in wsRef before
Connect(old) ==
    /\ ws' = "connecting"
    /\ orphans' = IF old \in LiveStates THEN [orphans EXCEPT ![old] = @ + 1] ELSE orphans

\* lines 126-128: ws.close() on the socket wsRef names
CloseCalled(state) == IF state \in {"connecting", "open"} THEN "closing" ELSE state

\* line 20 passing a socket that is still connecting
IsOpenOrConnecting(state) == state \in {"open", "connecting"}

\* line 20: wsRef.current?.readyState === WebSocket.OPEN
IsOpen(state) == state = "open"

\* line 61 left out: the counter keeps its value when the socket opens
KeepAttempts(attempts) == attempts

\* line 61: reconnectAttemptsRef.current = 0
ResetAttempts(attempts) == 0

\* line 101 with the test left out: a reconnect is scheduled whatever the count
ShouldReconnectAlways(attempts) == TRUE

\* line 101
ShouldReconnect(attempts) == attempts < maxReconnectAttempts

\* line 102 with a constant delay
ReconnectDelayFlat(attempts) == baseReconnectDelay

\* line 102
ReconnectDelay(attempts) == baseReconnectDelay * 2^attempts

\* line 105: setTimeout, its id stored in reconnectTimeoutRef
SetTimeout(delay) ==
    /\ refTimer' = delay
    /\ otherTimers' = IF refTimer # 0 THEN [otherTimers EXCEPT ![refTimer] = @ + 1]
                      ELSE otherTimers

WSInit ==
    /\ proxyURL \in URLs
    /\ mounted = TRUE
    /\ ws = IF proxyURL = "" THEN "null" ELSE "connecting"
    /\ orphans = NoOrphans
    /\ isConnected = FALSE
    /\ reconnectAttempts = 0
    /\ refTimer = 0
    /\ otherTimers = NoTimers
    /\ messageHandlers = NoHandlers
    /\ now = 1
    /\ handlersMade = 0
    /\ finished = {}
    /\ wsEvent = NoEvent
    /\ backoff = <<>>
    /\ tornDown = FALSE

\* lines 19-40: sendMessage(message, onResponse), onResponse given or not
SendMessage ==
    \E withHandler \in BOOLEAN :
        /\ mounted
        /\ withHandler => handlersMade < MaxSends
        /\ IF IsOpen(ws)
           THEN /\ messageHandlers' = IF withHandler
                                      THEN [messageHandlers EXCEPT ![now] = handlersMade + 1]
                                      ELSE messageHandlers
                /\ handlersMade' = IF withHandler THEN handlersMade + 1 ELSE handlersMade
                /\ wsEvent' = [NoEvent EXCEPT !.type = "send", !.id = now, !.sent = TRUE,
                                 !.registered = IF withHandler THEN handlersMade + 1 ELSE 0]
           ELSE /\ wsEvent' = [NoEvent EXCEPT !.type = "send"]
                /\ UNCHANGED <<messageHandlers, handlersMade>>
        /\ UNCHANGED <<proxyURL, mounted, ws, orphans, isConnected, reconnectAttempts,
                       refTimer, otherTimers, now, finished, backoff, tornDown>>
        /\ UNCHANGED <<gitVars, bridgeVars, dialogVars>>

\* lines 57-62
OnOpen ==
    \E sock \in Sockets :
        /\ ReadyState(sock) = "connecting"
        /\ Move(sock, "open")
        /\ isConnected' = TRUE
        /\ reconnectAttempts' = ResetAttempts(reconnectAttempts)
        /\ backoff' = <<>>
        /\ wsEvent' = [NoEvent EXCEPT !.type = "open", !.attempts = reconnectAttempts]
        /\ UNCHANGED <<proxyURL, mounted, refTimer, otherTimers, messageHandlers, now,
                       handlersMade, finished, tornDown>>
        /\ UNCHANGED <<gitVars, bridgeVars, dialogVars>>

\* lines 64-84: a frame arrives on an open socket
OnMessage ==
    \E sock \in Sockets, data \in {Malformed} \cup Envelopes :
        /\ ReadyState(sock) = "open"
        /\ IF data = Malformed
           THEN /\ wsEvent' = [NoEvent EXCEPT !.type = "message", !.status = data.status,
                                 !.threw = TRUE]
                /\ UNCHANGED <<messageHandlers, finished>>
           ELSE IF data.id # 0 /\ Has(messageHandlers, data.id)
           THEN /\ wsEvent' = [NoEvent EXCEPT !.type = "message", !.id = data.id,
                                 !.status = data.status,
                                 !.invoked = <<messageHandlers[data.id]>>]
                /\ messageHandlers' = DeleteIfTerminal(messageHandlers, data)
                /\ finished' = IF data.status \in Terminal
                               THEN finished \cup {messageHandlers[data.id]}
                               ELSE finished
           ELSE /\ wsEvent' = [NoEvent EXCEPT !.type = "message", !.id = data.id,
                                 !.status = data.status, !.warned = TRUE]
                /\ UNCHANGED <<messageHandlers, finished>>
        /\ UNCHANGED <<proxyURL, mounted, ws, orphans, isConnected, reconnectAttempts,
                       refTimer, otherTimers, now, handlersMade, backoff, tornDown>>
        /\ UNCHANGED <<gitVars, bridgeVars, dialogVars>>

\* lines 86-91; the browser closes the socket afterwards
OnError ==
    \E sock \in Sockets :
        /\ ReadyState(sock) \in {"connecting", "open"}
        /\ Move(sock, "errored")
        /\ isConnected' = FALSE
        /\ wsEvent' = NoEvent
        /\ UNCHANGED <<proxyURL, mounted, reconnectAttempts, refTimer, otherTimers,
                       messageHandlers, now, handlersMade, finished, backoff, tornDown>>
        /\ UNCHANGED <<gitVars, bridgeVars, dialogVars>>

\* lines 93-112: the close event, whoever closed the socket
OnClose ==
    \E sock \in Sockets :
        /\ ReadyState(sock) \in LiveStates
        /\ Move(sock, "closed")
        /\ isConnected' = FALSE
        /\ IF ShouldReconnect(reconnectAttempts)
           THEN /\ SetTimeout(ReconnectDelay(reconnectAttempts))
                /\ backoff' = IF tornDown THEN <<>>
                               ELSE Append(backoff, ReconnectDelay(reconnectAttempts))
           ELSE UNCHANGED <<refTimer, otherTimers, backoff>>
        /\ wsEvent' = NoEvent
        /\ UNCHANGED <<proxyURL, mounted, reconnectAttempts, messageHandlers, now,
                       handlersMade, finished, tornDown>>
        /\ UNCHANGED <<gitVars, bridgeVars, dialogVars>>

\* lines 105-108: a reconnect timer fires
ReconnectTimer ==
    \E d \in Delays, named \in BOOLEAN :
        /\ IF named THEN refTimer = d /\ refTimer' = 0 /\ otherTimers' = otherTimers
           ELSE /\ otherTimers[d] > 0
                /\ otherTimers' = [otherTimers EXCEPT ![d] = @ - 1]
                /\ refTimer' = refTimer
        /\ reconnectAttempts' = reconnectAttempts + 1
        /\ Connect(ws)
        /\ wsEvent' = NoEvent
        /\ UNCHANGED <<proxyURL, mounted, isConnected, messageHandlers, now, handlersMade,
                       finished, backoff, tornDown>>
        /\ UNCHANGED <<gitVars, bridgeVars, dialogVars>>

\* lines 122-129: the effect's cleanup; the pending timer the ref names is cleared,
\* the socket wsRef names is closed, the handler map is left alone
Cleanup ==
    /\ refTimer' = 0
    /\ tornDown' = (tornDown \/ ws # "null")
    /\ backoff' = IF tornDown \/ ws # "null" THEN <<>> ELSE backoff
    /\ UNCHANGED <<otherTimers, isConnected, reconnectAttempts, messageHandlers, now,
                   handlersMade, finished>>

\* lines 117-130: the component renders with another proxyURL; the cleanup runs, then
\* the effect
SetProxyURL ==
    \E url \in URLs \ {proxyURL} :
        /\ mounted
        /\ url # "" => LeftBehind <= MaxLeftBehind
        /\ proxyURL' = url
        /\ Cleanup
        /\ IF url # "" THEN Connect(CloseCalled(ws))
           ELSE ws' = CloseCalled(ws) /\ orphans' = orphans
        /\ wsEvent' = NoEvent
        /\ UNCHANGED mounted
        /\ UNCHANGED <<gitVars, bridgeVars, dialogVars>>

\* lines 122-129: the component unmounts
Unmount ==
    /\ mounted
    /\ mounted' = FALSE
    /\ Cleanup
    /\ ws' = CloseCalled(ws)
    /\ wsEvent' = NoEvent
    /\ UNCHANGED <<proxyURL, orphans>>
    /\ UNCHANGED <<gitVars, bridgeVars, dialogVars>>

\* Date.now() moves on
Tick ==
    /\ now < MaxTime
    /\ now' = now + 1
    /\ wsEvent' = NoEvent
    /\ UNCHANGED <<proxyURL, mounted, ws, orphans, isConnected, reconnectAttempts, refTimer,
                   otherTimers, messageHandlers, handlersMade, finished, backoff, tornDown>>
    /\ UNCHANGED <<gitVars, bridgeVars, dialogVars>>

WSNext ==
    \/ SendMessage
    \/ OnOpen
    \/ OnMessage
    \/ OnError
    \/ OnClose
    \/ ReconnectTimer
    \/ SetProxyURL
    \/ Unmount
    \/ Tick

(***************************************************************************)
(* The checkpoint dialog, GitCheckpointModal.tsx lines 11-43 and 66-99,    *)
(* and the switch of the history dialog, part_001 lines 213-227 and 319.   *)
(* A handler runs on the state of the last render; React renders again at  *)
(* the end of each event, before the next event is handled.  The calls of  *)
(* the backend stay in flight until they resolve or reject.                *)
(***************************************************************************)
MaxInFlight == 2

Texts == {<<>>, <<" ">>, <<"f", "i", "x">>}
Keys == {"Cmd+Enter", "Enter", "Escape"}
Rejections == {ExitStatus(1)}
Shown == {1, 2}
NoDialogEvent == [type |-> "none", started |-> FALSE, calls |-> <<>>]

\* s without its k-th element
Without(s, k) == SubSeq(s, 1, k - 1) \o SubSeq(s, k + 1, Len(s))

\* !message.trim(), lines 17 and 95
MessageBlank(text) == TrimSpace(text) = <<>>

\* line 95: disabled={isCreating || !message.trim()}
ButtonDisabled(flag, text) == flag \/ MessageBlank(text)

\* lines 27-29 with onClose before onSuccess
SucceededCallsCloseFirst == <<"setMessage", "onClose", "onSuccess">>

\* lines 27-29: setMessage(''), onSuccess(), onClose()
SucceededCalls == <<"setMessage", "onSuccess", "onClose">>

\* lines 16-26: handleCreate up to its await
handleCreate ==
    IF MessageBlank(typedMessage)
    THEN /\ createError' = <<"Please enter a commit message">>
         /\ dialogEvent' = [NoDialogEvent EXCEPT !.type = "create"]
         /\ UNCHANGED <<typedMessage, isCreating, creating>>
    ELSE /\ Len(creating) < MaxInFlight
         /\ isCreating' = TRUE
         /\ createError' = <<>>
         /\ creating' = Append(creating, typedMessage)
         /\ dialogEvent' = [NoDialogEvent EXCEPT !.type = "create", !.started = TRUE]
         /\ UNCHANGED typedMessage

\* line 68: the user edits the text
Type ==
    \E text \in Texts \ {typedMessage} :
        /\ typedMessage' = text
        /\ dialogEvent' = [NoDialogEvent EXCEPT !.type = "type"]
        /\ UNCHANGED <<isCreating, createError, creating>>
        /\ UNCHANGED <<isSwitching, switchingHash, switchError, switching>>
        /\ UNCHANGED <<gitVars, bridgeVars, wsVars>>

\* lines 93-99: a click on Create Checkpoint, which a disabled button does not take
ClickCreate ==
    /\ ~ButtonDisabled(isCreating, typedMessage)
    /\ handleCreate
    /\ UNCHANGED <<isSwitching, switchingHash, switchError, switching>>
    /\ UNCHANGED <<gitVars, bridgeVars, wsVars>>

\* lines 37-43: handleKeyDown on the textarea
KeyDown ==
    \E key \in Keys :
        /\ IF key = "Cmd+Enter" THEN handleCreate
           ELSE /\ dialogEvent' = [NoDialogEvent EXCEPT
                                      !.type = "key",
                                      !.calls = IF key = "Escape" THEN <<"onClose">>
                                                ELSE <<>>]
                /\ UNCHANGED <<typedMessage, isCreating, createError, creating>>
        /\ UNCHANGED <<isSwitching, switchingHash, switchError, switching>>
        /\ UNCHANGED <<gitVars, bridgeVars, wsVars>>

\* lines 26-29 and 32-34: a CreateGitCheckpoint call resolves
CreateResolves ==
    \E k \in 1..Len(creating) :
        /\ creating' = Without(creating, k)
        /\ typedMessage' = <<>>
        /\ isCreating' = FALSE
        /\ dialogEvent' = [NoDialogEvent EXCEPT !.type = "created", !.calls = SucceededCalls]
        /\ UNCHANGED createError
        /\ UNCHANGED <<isSwitching, switchingHash, switchError, switching>>
        /\ UNCHANGED <<gitVars, bridgeVars, wsVars>>

\* lines 30-34: a CreateGitCheckpoint call rejects
CreateRejects ==
    \E k \in 1..Len(creating), err \in Rejections :
        /\ creating' = Without(creating, k)
        /\ createError' = Wrap("Failed to create checkpoint", err)
        /\ isCreating' = FALSE
        /\ dialogEvent' = [NoDialogEvent EXCEPT !.type = "create failed"]
        /\ UNCHANGED typedMessage
        /\ UNCHANGED <<isSwitching, switchingHash, switchError, switching>>
        /\ UNCHANGED <<gitVars, bridgeVars, wsVars>>

\* part_001 line 319 without the test: every click starts a switch
ClickStartsAlways(flag) == TRUE

\* part_001 line 319: !isSwitching && handleCheckout(...)
ClickStarts(flag) == ~flag

\* part_001 lines 213-218 and 319: a click on the row of a checkpoint
ClickCommit ==
    \E c \in Shown :
        /\ IF ClickStarts(isSwitching)
           THEN /\ Len(switching) < MaxInFlight
                /\ switchingHash' = ShortHash(c)
                /\ isSwitching' = TRUE
                /\ switchError' = <<>>
                /\ switching' = Append(switching, FullHash(c))
                /\ dialogEvent' = [NoDialogEvent EXCEPT !.type = "switch", !.started = TRUE]
           ELSE /\ dialogEvent' = [NoDialogEvent EXCEPT !.type = "switch"]
                /\ UNCHANGED <<isSwitching, switchingHash, switchError, switching>>
        /\ UNCHANGED <<typedMessage, isCreating, createError, creating>>
        /\ UNCHANGED <<gitVars, bridgeVars, wsVars>>

\* part_001 lines 218-220 and 223-226: a SwitchToGitCommit call resolves
SwitchResolves ==
    \E k \in 1..Len(switching) :
        /\ switching' = Without(switching, k)
        /\ isSwitching' = FALSE
        /\ switchingHash' = ""
        /\ dialogEvent' = [NoDialogEvent EXCEPT !.type = "switched",
                                                !.calls = <<"onCheckout", "onClose">>]
        /\ UNCHANGED switchError
        /\ UNCHANGED <<typedMessage, isCreating, createError, creating>>
        /\ UNCHANGED <<gitVars, bridgeVars, wsVars>>

\* part_001 lines 221-226: a SwitchToGitCommit call rejects
SwitchRejects ==
    \E k \in 1..Len(switching), err \in Rejections :
        /\ switching' = Without(switching, k)
        /\ switchError' = Wrap("Failed to switch commit", err)
        /\ isSwitching' = FALSE
        /\ switchingHash' = ""
        /\ dialogEvent' = [NoDialogEvent EXCEPT !.type = "switch failed"]
        /\ UNCHANGED <<typedMessage, isCreating, createError, creating>>
        /\ UNCHANGED <<gitVars, bridgeVars, wsVars>>

\* the state of both dialogs after construction, lines 12-14 and part_001 182-188
DialogInit ==
    /\ typedMessage = <<>>
    /\ isCreating = FALSE
    /\ createError = <<>>
    /\ creating = <<>>
    /\ isSwitching = FALSE
    /\ switchingHash = ""
    /\ switchError = <<>>
    /\ switching = <<>>
    /\ dialogEvent = NoDialogEvent

DialogNext ==
    \/ Type
    \/ ClickCreate
    \/ KeyDown
    \/ CreateResolves
    \/ CreateRejects
    \/ ClickCommit
    \/ SwitchResolves
    \/ SwitchRejects

(***************************************************************************)
(* The specifications: each runs one part of the program and holds the     *)
(* other parts in their state after construction.                          *)
(***************************************************************************)
WSIdle == WSInit /\ proxyURL = ""

InitialRepo ==
    /\ commits = InitialHistory
    /\ branches = [b \in BranchNames |-> IF b = "main" THEN InitialFeature ELSE 0]
    /\ head = OnBranch("main")
    /\ index = InitialHistory[InitialFeature].tree
    /\ worktree = index
    /\ mergeHead = 0
    /\ lastRes = NoCall
    /\ callPc = [p \in GitCallers |-> "idle"]

InitGit == GitInit /\ BridgeInit /\ WSIdle /\ DialogInit
SpecGit == InitGit /\ [][GitNext]_vars

SpecGitSteps == InitGit /\ [][GitStepNext]_vars

InitBridge == InitialRepo /\ BridgeInit /\ WSIdle /\ DialogInit
SpecBridge == InitBridge /\ [][BridgeNext]_vars

InitWS == InitialRepo /\ BridgeInit /\ WSInit /\ DialogInit
SpecWS == InitWS /\ [][WSNext]_vars

InitFormat ==
    /\ InitialRepo
    /\ BridgeCallsInit
    /\ WSIdle
    /\ DialogInit
    /\ fmtInput \in FormatInputs
    /\ fmtOutput = NotFormatted
SpecFormat == InitFormat /\ [][FormatNext]_vars

InitDialogs == InitialRepo /\ BridgeInit /\ WSIdle /\ DialogInit
SpecDialogs == InitDialogs /\ [][DialogNext]_vars


(***************************************************************************)
(* GetCurrentGitCommit, which the history dialog calls beside the list:    *)
(* the full hash of the current position.                                  *)
(***************************************************************************)
GetCurrentGitCommit(r) == FullHash(HeadCommit(r))

(***************************************************************************)
(* Claims about the checkpoint manager, checked under SpecGit.             *)
(***************************************************************************)
ManagerCalls == {"CreateCommit", "CheckoutCommit"}
NewestCommit(r) == Len(r.commits)
\* the tree of the commit HEAD names: no file where HEAD names no commit
TreeAtHead(r) == IF HasRepo(r) /\ ~Unborn(r) THEN TreeOf(r, HeadCommit(r)) ELSE 0
ListedHashes(r) ==
    {GetCommitHistory(r, HistoryLimit)[i].Hash :
        i \in 1..Len(GetCommitHistory(r, HistoryLimit))}

\* C1: whenever CreateCommit or CheckoutCommit returns success, HEAD is on
\* the branch main, and main points to the commit the call has just created
\* (CreateCommit) or to the commit whose hash was passed (CheckoutCommit).
C1_SuccessLeavesHeadOnMain ==
    [][(lastRes'.op \in ManagerCalls /\ lastRes'.err = Nil) =>
          /\ head'.ref = "main"
          /\ lastRes'.op = "CreateCommit" =>
                /\ Len(commits') > Len(commits)
                /\ branches'["main"] = Len(commits')
                /\ commits'[Len(commits')].author = LayrrName
                /\ commits'[Len(commits')].msg = lastRes'.msg
          /\ lastRes'.op = "CheckoutCommit" =>
                /\ Resolve(Repo, lastRes'.hash) # 0
                /\ branches'["main"] = Resolve(Repo, lastRes'.hash)]_vars

\* a checkpoint on top of feature's commit, which no initial main holds
C1_Witness ==
    /\ lastRes.op = "CreateCommit"
    /\ lastRes.err = Nil
    /\ head.ref = "main"
    /\ InitialFeature \in Ancestors(commits, branches["main"])

\* C2: history is never deleted: every checkpoint the manager has created
\* is among the entries GetCommitHistory returns (the limit being at least
\* the number of commits).
C2_HistoryNeverDeleted ==
    \A c \in 1..Len(commits) :
        commits[c].author = LayrrName => FullHash(c) \in ListedHashes(Repo)

\* C3: after a successful CheckoutCommit(hash) the current position is that
\* commit, and the working tree and the index equal its snapshot: no
\* uncommitted edit survives.
C3_TravelRestoresSnapshot ==
    (lastRes.op = "CheckoutCommit" /\ lastRes.err = Nil) =>
        /\ GetCurrentGitCommit(Repo) = lastRes.hash
        /\ index = TreeOf(Repo, Resolve(Repo, lastRes.hash))
        /\ worktree = TreeOf(Repo, Resolve(Repo, lastRes.hash))

\* C8: a CreateCommit or CheckoutCommit that returns an error leaves the
\* repository (HEAD, branches, commits, index, working tree, merge state)
\* as it was before the call.
C8_FailureLeavesRepositoryUnchanged ==
    [][(lastRes'.op \in ManagerCalls /\ lastRes'.err # Nil) => Repo' = Repo]_vars

\* the newest commit is a checkpoint with the call's message, the only
\* commit the call added, and the first entry of the list
OneNewCheckpointListedFirst ==
    /\ Len(commits') = Len(commits) + 1
    /\ commits'[Len(commits')].author = LayrrName
    /\ commits'[Len(commits')].msg = lastRes'.msg
    /\ Len(GetCommitHistory(Repo', HistoryLimit)) >= 1
    /\ GetCommitHistory(Repo', HistoryLimit)[1].Hash = FullHash(Len(commits'))
    /\ GetCommitHistory(Repo', HistoryLimit)[1].Message = Text(lastRes'.msg)
    /\ GetCommitHistory(Repo', HistoryLimit)[1].Author = Text(LayrrName)

HookRejection(r) == CreateCommit(r, <<"fix", "|", "typo">>, "commit").err

\* C10: CreateCommit with nothing to commit fails, creates no commit, and
\* its error differs from the error of another failure of the commit step
\* (a commit that a hook rejects).
C10_NothingToCheckpointIsDistinct ==
    [][(/\ lastRes'.op = "CreateCommit"
        /\ CreateCommit(Repo, lastRes'.msg, lastRes'.fault).cause = "nothing to commit") =>
          /\ lastRes'.err # Nil
          /\ commits' = commits
          /\ lastRes'.err # HookRejection(Repo)]_vars

(***************************************************************************)
(* The agent session.                                                      *)
(***************************************************************************)
\* C4: of the concurrent HandleMessage calls on one bridge at most one instruction is
\* in progress in the agent session at any time, and it is the instruction of the
\* caller holding the session; every other caller that has reached SendMessage waits
C4_OneInstructionInProgress ==
    /\ Cardinality(processing) <= 1
    /\ \A c \in Callers : pc[c] = "inSession" <=> processing = {c}

\* one instruction is in progress while a second caller waits to submit its own
C4_Witness ==
    \E c, d \in Callers : c # d /\ processing = {c} /\ pc[d] = "sending"

(***************************************************************************)
(* The transport.                                                          *)
(***************************************************************************)
\* a send on an open connection with a handler registers it under the id returned
SendRegisters ==
    (wsEvent'.type = "send" /\ ws = "open" /\ wsEvent'.registered # 0) =>
        /\ wsEvent'.id = now /\ wsEvent'.sent
        /\ messageHandlers'[wsEvent'.id] = wsEvent'.registered
        /\ wsEvent'.registered \notin finished

\* a terminal message with a registered id calls the handler once and removes it
TerminalCallsOnceAndRemoves ==
    (/\ wsEvent'.type = "message" /\ ~wsEvent'.threw
     /\ wsEvent'.status \in Terminal /\ Has(messageHandlers, wsEvent'.id)) =>
        /\ wsEvent'.invoked = <<messageHandlers[wsEvent'.id]>>
        /\ ~Has(messageHandlers', wsEvent'.id)
        /\ \A i \in Ids \ {wsEvent'.id} : messageHandlers'[i] = messageHandlers[i]

\* a message whose id has no handler calls nothing, changes nothing and does not throw
UnknownIdDropped ==
    (/\ wsEvent'.type = "message" /\ wsEvent'.status # Malformed.status
     /\ ~Has(messageHandlers, wsEvent'.id)) =>
        /\ wsEvent'.invoked = <<>>
        /\ ~wsEvent'.threw
        /\ messageHandlers' = messageHandlers

\* a handler that was given its terminal message is not registered and not called again
NeverAfterTerminal ==
    /\ \A k \in 1..Len(wsEvent'.invoked) : wsEvent'.invoked[k] \notin finished
    /\ \A i \in Ids : messageHandlers'[i] \notin finished'

C6_ClosedLeavesNoPendingRequest ==
    (ws = "closed" \/ ~mounted) => messageHandlers = NoHandlers

\* the reconnect budget is used up and nothing is left that could reconnect
Exhausted ==
    /\ ~tornDown
    /\ reconnectAttempts = 5
    /\ ws = "closed" /\ Total(orphans) = 0
    /\ refTimer = 0 /\ Total(otherTimers) = 0

\* the delays scheduled since the last open are 1000, 2000, 4000, 8000, 16000 in
\* this order, and no more attempts were made than delays were scheduled
BackoffDoubles ==
    ~tornDown =>
        /\ Len(backoff) <= 5
        /\ \A k \in 1..Len(backoff) : backoff[k] = 1000 * 2^(k - 1)
        /\ reconnectAttempts <= Len(backoff)

C11_EnsureMainBranchIdempotent ==
    LET first == ensureMainBranch(Repo)
        second == ensureMainBranch(first.repo)
    IN  /\ first.err = Nil => (second.err = Nil /\ second.repo = first.repo)
        /\ AbbrevRefHead(Repo) = "main" =>
               /\ first.repo = Repo
               /\ ~Unborn(Repo) => first.err = Nil

\* a first call that merges feature into main with a merge commit
C11_Witness ==
    /\ AbbrevRefHead(Repo) = "feature"
    /\ ensureMainBranch(Repo).err = Nil
    /\ Len(ensureMainBranch(Repo).repo.commits) = Len(commits) + 1
    /\ ensureMainBranch(ensureMainBranch(Repo).repo).repo = ensureMainBranch(Repo).repo

\* the commands up to the checkout when ensureMainBranch starts on another branch
RepairPrefix ==
    <<"rev-parse --abbrev-ref HEAD", "rev-parse --verify main">>
        \o (IF branches["main"] = 0 THEN <<"branch main">> ELSE <<>>)
        \o <<"checkout main">>

\* the repository after main was created if absent and checked out
SwitchedToMain ==
    GitCheckout((IF branches["main"] = 0 THEN GitBranchMain(Repo) ELSE Ran(Repo, 0)).repo,
                "main")

\* main is created at the current commit if absent, then checked out, then the branch
\* is merged fast-forward-only and, only if that fails, with a regular merge; after a
\* success HEAD is on main and main contains the branch
RepairSteps(e) ==
    /\ e.cmds \in {RepairPrefix, RepairPrefix \o <<"merge --ff-only">>,
                   RepairPrefix \o <<"merge --ff-only", "merge">>}
    /\ branches["main"] = 0 => e.repo.branches["main"] # 0
    /\ Len(e.cmds) = Len(RepairPrefix) + 2 =>
           GitMergeFFOnly(SwitchedToMain.repo, head.ref).code # 0
    /\ e.err = Nil =>
           /\ e.repo.head = OnBranch("main")
           /\ Len(e.cmds) > Len(RepairPrefix)
           /\ HeadCommit(Repo) \in Ancestors(e.repo.commits, e.repo.branches["main"])

\* both merge attempts were made and both failed
BothMergesFailed(e) ==
    /\ e.cmds = RepairPrefix \o <<"merge --ff-only", "merge">>
    /\ GitMergeFFOnly(SwitchedToMain.repo, head.ref).code # 0
    /\ GitMerge(SwitchedToMain.repo, head.ref).code # 0

\* C12 as stated: from a branch other than main the steps are as above and an error is
\* returned only if both merge attempts fail
C12_ErrorOnlyIfBothMergesFail ==
    head.ref \in BranchNames \ {"main"} =>
        LET e == ensureMainBranch(Repo)
        IN  RepairSteps(e) /\ (e.err # Nil => BothMergesFailed(e))

\* C12 amended: from a branch other than main the steps are as above and an error is
\* returned exactly if the checkout of main fails, before any merge is tried, or both
\* merge attempts fail
C12_ErrorIfCheckoutOrBothMergesFail ==
    head.ref \in BranchNames \ {"main"} =>
        LET e == ensureMainBranch(Repo)
        IN  /\ RepairSteps(e)
            /\ e.err # Nil <=>
                  \/ SwitchedToMain.code # 0 /\ e.cmds = RepairPrefix
                  \/ SwitchedToMain.code = 0 /\ BothMergesFailed(e)

\* on feature with main beside it: the fast-forward fails and the regular merge succeeds
C12_Witness ==
    /\ head.ref = "feature"
    /\ ensureMainBranch(Repo).err = Nil
    /\ ensureMainBranch(Repo).cmds = RepairPrefix \o <<"merge --ff-only", "merge">>

(***************************************************************************)
(* The project directory without a repository.                             *)
(***************************************************************************)
NoRepository ==
    [commits |-> <<>>, branches |-> [b \in BranchNames |-> 0], head |-> NoHead,
     index |-> 0, worktree |-> 0, mergeHead |-> 0]

\* what an operation returns where there is no repository
NoRepositoryError(op) ==
    IF op = "CreateCommit" THEN CreateCommit(NoRepository, <<"fix", "|", "typo">>, "none").err
    ELSE IF op = "CheckoutCommit" THEN CheckoutCommit(NoRepository, FullHash(1), "none").err
    ELSE GetCommitHistoryErr(NoRepository)

\* C13: without a repository CreateCommit, GetCommitHistory and CheckoutCommit fail
\* and change nothing, and the error they return is one that no call returns where
\* a repository exists
C13_NoRepositoryReportedDistinctly ==
    [][lastRes'.op \in ManagerCalls \cup {"GetCommitHistory"} =>
          /\ ~HasRepo(Repo) =>
                (lastRes'.err = NoRepositoryError(lastRes'.op) /\ lastRes'.err # Nil
                 /\ Repo' = Repo)
          /\ (HasRepo(Repo) /\ lastRes'.err # Nil) =>
                lastRes'.err # NoRepositoryError(lastRes'.op)]_vars

(***************************************************************************)
(* Request ids.                                                            *)
(***************************************************************************)
\* C14: two requests that are pending at the same time have different ids: a send
\* never registers its handler under an id that still has one, so every handler that
\* was passed and has not received its terminal message is still registered
C14_PendingIdsDiffer ==
    \A h \in 1..handlersMade :
        h \notin finished => \E i \in Ids : messageHandlers[i] = h

(***************************************************************************)
(* Concurrent calls of the checkpoint manager.                             *)
(***************************************************************************)
\* C15: the git commands of two manager calls never interleave: a call runs a command
\* only while no other call is between two of its own commands
C15_OperationsSerialized ==
    [][\A p \in GitCallers :
          callPc'[p] # callPc[p] => \A q \in GitCallers \ {p} : callPc[q] = "idle"]_vars

(***************************************************************************)
(* Claims about formatMessage.                                             *)
(***************************************************************************)
\* formatMessage has returned for the message at hand
HasFormatted == fmtOutput # NotFormatted

\* how often the byte b occurs in s
CountOf(s, b) == Cardinality({i \in 1..Len(s) : s[i] = b})

\* the descriptors of the first n elements, in captured order
DescriptorsOf(elements, n) == [k \in 1..n |-> ElementDesc(elements[k])]

\* C17: for a selection of more than 20 elements the output is the instruction,
\* the area clause, the descriptors of the first 20 elements in captured order,
\* one summary token counting the elements beyond the 20th, and the closing
\* marker; apart from the summary token there are exactly 20 descriptors.
C17_TwentyDescriptorsThenSummary ==
    (HasFormatted /\ Len(fmtInput.Area.Elements) > 20) =>
        /\ fmtOutput =
               Join(<<fmtInput.Instruction, AreaClause(fmtInput.Area)>>
                        \o DescriptorsOf(fmtInput.Area.Elements, 20)
                        \o <<MoreElements(Len(fmtInput.Area.Elements) - 20), <<")">> >>)
        /\ CountOf(fmtOutput, "[") = 21
        /\ CountOf(fmtOutput, "+") = 1

C17_Witness == HasFormatted /\ Len(fmtInput.Area.Elements) = 22

\* C18: for a selection whose element sequence is empty the output is the
\* instruction, the area clause and the closing marker, joined by single spaces:
\* it holds no descriptor bracket and no summary token.
C18_EmptySelectionHasNoDescriptors ==
    (HasFormatted /\ fmtInput.Area.Elements = <<>>) =>
        /\ fmtOutput = Join(<<fmtInput.Instruction, AreaClause(fmtInput.Area), <<")">> >>)
        /\ CountOf(fmtOutput, "[") = 0
        /\ CountOf(fmtOutput, "]") = 0
        /\ CountOf(fmtOutput, "+") = 0

C18_Witness ==
    /\ HasFormatted
    /\ fmtInput.Area.Elements = <<>>
    /\ fmtInput.Area.ElementCount = 3

\* the number of characters of s: every byte but the continuation bytes starts one
CharLen(s) == Cardinality({i \in 1..Len(s) : s[i] # ContinuationByte})

\* the first n characters of s: its longest prefix of whole characters that
\* holds at most n of them
FirstChars(s, n) ==
    LET ends == {j \in 0..Len(s) :
                    /\ CharLen(SubSeq(s, 1, j)) <= n
                    /\ (j = Len(s) \/ s[j + 1] # ContinuationByte)}
    IN  SubSeq(s, 1, CHOOSE j \in ends : \A k \in ends : k <= j)

\* s when it has at most `limit` characters, else its first `limit` characters
\* and the ellipsis marker
TruncatedAtCharacters(s, limit) ==
    IF CharLen(s) <= limit THEN s ELSE FirstChars(s, limit) \o Ellipsis

\* the descriptor of an element with its text and markup cut at characters
DescriptorAtCharacters(el) ==
    <<"[">> \o el.Selector
        \o (IF el.InnerText # <<>>
            THEN <<" ", "t", "e", "x", "t", ":", "\"">>
                     \o TruncatedAtCharacters(Collapse(el.InnerText), 50) \o <<"\"">>
            ELSE <<>>)
        \o (IF el.OuterHTML # <<>>
            THEN <<" ", "h", "t", "m", "l", ":">>
                     \o TruncatedAtCharacters(Collapse(el.OuterHTML), 100)
            ELSE <<>>)
        \o <<"]">>

\* C19: in the descriptor of every described element, a trimmed inner text of
\* at most 50 characters is emitted unchanged and a longer one as its first 50
\* characters and the ellipsis marker; a trimmed markup of at most 100
\* characters is emitted unchanged and a longer one as its first 100 characters
\* and the ellipsis marker.
C19_TruncationAtCharacterBoundaries ==
    (HasFormatted /\ Len(fmtInput.Area.Elements) <= 20) =>
        fmtOutput =
            Join(<<fmtInput.Instruction, AreaClause(fmtInput.Area)>>
                     \o [k \in 1..Len(fmtInput.Area.Elements) |->
                             DescriptorAtCharacters(fmtInput.Area.Elements[k])]
                     \o << <<")">> >>)

\* C20: whatever the instruction, the selectors, the inner texts and the
\* markups hold, the string formatMessage returns holds no newline.
C20_OutputIsOneLine == HasFormatted => CountOf(fmtOutput, NL) = 0

(***************************************************************************)
(* Claims about Bridge.HandleMessage.                                      *)
(***************************************************************************)
\* caller c has returned from a HandleMessage call and has not entered the next
Returned(c) == pc[c] = "idle" /\ result[c] # NotCalled

\* C16: a HandleMessage call passes exactly one string to SendMessage, the
\* message as formatMessage formats it; it returns nil exactly when SendMessage
\* returned nil, and otherwise an error that wraps the error SendMessage returned.
C16_SendsOnceAndWrapsError ==
    \A c \in Callers :
        /\ Len(submitted[c]) <= 1
        /\ pc[c] = "inSession" => submitted[c] = <<formatMessage(msgOf[c])>>
        /\ Returned(c) =>
               /\ submitted[c] = <<formatMessage(msgOf[c])>>
               /\ result[c] = Nil <=> sendResult[c] = Nil
               /\ sendResult[c] # Nil =>
                      result[c] = Wrap("failed to send message to Claude Code", sendResult[c])

C16_Witness ==
    \E c \in Callers :
        /\ Returned(c)
        /\ sendResult[c] = AgentError
        /\ Len(msgOf[c].Area.Elements) = 1

\* where the byte b first occurs in s, 0 when it does not
FirstIndexOf(s, b) ==
    IF CountOf(s, b) = 0 THEN 0
    ELSE CHOOSE i \in 1..Len(s) : s[i] = b /\ \A j \in 1..(i - 1) : s[j] # b

\* s from position `from` on starts with `piece`
StartsWithAt(s, from, piece) ==
    /\ from + Len(piece) - 1 <= Len(s)
    /\ SubSeq(s, from, from + Len(piece) - 1) = piece

ExampleOpening ==
    <<"m", "a", "k", "e", " ", "t", "h", "e", " ", "b", "u", "t", "t", "o", "n", " ",
      "p", "u", "r", "p", "l", "e", " ", "(", "S", "e", "l", "e", "c", "t", "e", "d",
      " ", "2", " ", "e", "l", "e", "m", "e", "n", "t", "s", " ", "i", "n", " ", "3",
      "0", "0", "x", "1", "2", "0", " ", "a", "r", "e", "a", ":", " ", "[", "d", "i",
      "v", "#", "c", "a", "r", "d", "-", "1", ".", "c", "a", "r", "d">>

ExampleSecondOpening ==
    <<" ", "[", "b", "u", "t", "t", "o", "n", ".", "b", "u", "y">>

\* C21: for the selection of div#card-1.card and button.buy, 300 by 120 pixels,
\* elementCount 2, and the instruction "make the button purple", the output
\* starts with the instruction, " (Selected 2 elements in 300x120 area:" and the
\* bracket and selector of the first element; after the first closing bracket
\* follow the bracket and selector of the second element; the output ends with
\* the second closing bracket and " )"; there are two descriptors.
C21_ExampleSelection ==
    (HasFormatted /\ fmtInput = ExampleMessage) =>
        /\ StartsWithAt(fmtOutput, 1, ExampleOpening)
        /\ StartsWithAt(fmtOutput, FirstIndexOf(fmtOutput, "]") + 1, ExampleSecondOpening)
        /\ StartsWithAt(fmtOutput, Len(fmtOutput) - 2, <<"]", " ", ")">>)
        /\ CountOf(fmtOutput, "[") = 2
        /\ CountOf(fmtOutput, "]") = 2

C21_Witness == HasFormatted /\ fmtInput = ExampleMessage

(***************************************************************************)
(* Claims about ws.onmessage.                                              *)
(***************************************************************************)
\* the step delivers a message that parsed into an envelope
EnvelopeDelivered == wsEvent'.type = "message" /\ wsEvent'.status # Malformed.status

\* before the step, no handler is registered under the id of the message delivered
NotRegistered == wsEvent'.id \notin Ids \/ messageHandlers[wsEvent'.id] = 0

\* C22: a message whose id has no registered handler, because none was ever
\* registered under it or because it was removed, calls no handler, changes no
\* entry of the handler map, is reported with a diagnostic and raises no exception.
C22_UnregisteredIdDropped ==
    [][(EnvelopeDelivered /\ NotRegistered) =>
           /\ wsEvent'.invoked = <<>>
           /\ wsEvent'.warned
           /\ ~wsEvent'.threw
           /\ messageHandlers' = messageHandlers
           /\ finished' = finished]_vars

\* a message for an id whose handler was removed at its terminal message has
\* just been dropped, while another handler is still registered
C22_Witness ==
    /\ wsEvent.type = "message" /\ wsEvent.warned
    /\ wsEvent.id \in Ids
    /\ finished # {}
    /\ \E i \in Ids : messageHandlers[i] # 0

\* C23: a message that cannot be parsed into an envelope is logged and dropped:
\* the receive handler raises no exception, calls no response handler and leaves
\* the handler map unchanged.
C23_MalformedDroppedQuietly ==
    [][(wsEvent'.type = "message" /\ wsEvent'.status = Malformed.status) =>
           /\ ~wsEvent'.threw
           /\ wsEvent'.invoked = <<>>
           /\ messageHandlers' = messageHandlers]_vars

\* a message with a registered id is delivered and its status is not terminal
PendingDelivered ==
    /\ EnvelopeDelivered /\ ~NotRegistered
    /\ wsEvent'.status = "pending"

\* a message with a registered id is delivered and its status is terminal
TerminalDelivered ==
    /\ EnvelopeDelivered /\ ~NotRegistered
    /\ wsEvent'.status \in Terminal

C24_EmptyMessageRejectedWithoutEffect ==
    [][(lastRes'.op = "CreateCommit" /\ lastRes'.msg = <<>>) =>
           /\ lastRes'.err # Nil
           /\ Repo' = Repo]_vars

\* the k-th latest of the commits in S
KthLatest(S, k) == CHOOSE c \in S : Cardinality({d \in S : d > c}) = k - 1

\* entry k of `list` is the k-th latest commit of S, with its author and message
ListsKthLatest(list, S, k) ==
    /\ list[k].Hash = FullHash(KthLatest(S, k))
    /\ list[k].ShortHash = ShortHash(KthLatest(S, k))
    /\ list[k].Author = Text(commits[KthLatest(S, k)].author)
    /\ list[k].Message = Text(commits[KthLatest(S, k)].msg)

\* `list` holds the latest commits of S, latest first, as many as the limit allows
ListsLatestFirst(list, S, limit) ==
    /\ Len(list) <= limit
    /\ Len(list) = (IF Cardinality(S) < limit THEN Cardinality(S) ELSE limit)
    /\ \A k \in 1..Len(list) : ListsKthLatest(list, S, k)

\* GetCommitHistory has just returned a list
HistoryReturned == lastRes.op = "GetCommitHistory" /\ lastRes.err = Nil

AddedCommits == (Len(commits) + 1)..Len(commits')

\* the step is a CreateCommit that succeeded and c is the commit it made last
IsNewCheckpoint(c) ==
    /\ lastRes'.op = "CreateCommit" /\ lastRes'.err = Nil
    /\ c = Len(commits')

\* the entry of commit c in the list has the author Layrr exactly when c has
ListedAsAuthored(r, c) ==
    \A k \in 1..Len(GetCommitHistory(r, HistoryLimit)) :
        GetCommitHistory(r, HistoryLimit)[k].Hash = FullHash(c) =>
            (GetCommitHistory(r, HistoryLimit)[k].Author = "Layrr"
                 <=> r.commits[c].author = LayrrName)

\* C26: a CreateCommit that succeeds adds one commit whose author is Layrr,
\* whoever the user is; no other commit a manager call adds (a merge commit of
\* ensureMainBranch) has that author, the commits that exist keep theirs, and
\* the list shows the author Layrr for exactly the commits that have it.
C26_CheckpointsAuthoredByLayrr ==
    [][lastRes'.op \in ManagerCalls =>
           /\ \A c \in AddedCommits :
                  /\ commits'[c].author = LayrrName <=> IsNewCheckpoint(c)
                  /\ ListedAsAuthored(Repo', c)
           /\ \A c \in 1..Len(commits) : commits'[c] = commits[c]
           /\ (lastRes'.op = "CreateCommit" /\ lastRes'.err = Nil) =>
                  /\ AddedCommits # {}
                  /\ commits'[Len(commits')].author = LayrrName]_vars

\* a CreateCommit has succeeded and the list shows its commit as Layrr's first,
\* followed by a commit of the user
C26_Witness ==
    /\ lastRes.op = "CreateCommit" /\ lastRes.err = Nil
    /\ commits[Len(commits)].author = LayrrName
    /\ Len(GetCommitHistory(Repo, HistoryLimit)) >= 2
    /\ GetCommitHistory(Repo, HistoryLimit)[1].Author = "Layrr"
    /\ GetCommitHistory(Repo, HistoryLimit)[2].Author = "user"

\* the commands ensureMainBranch runs, and those that follow it
EnsureCommands ==
    {"rev-parse --abbrev-ref HEAD", "rev-parse --verify main", "branch main",
     "checkout main", "merge --ff-only", "merge"}
MutatingSteps == {"add .", "commit", "reset --hard"}

\* where the first stage, commit or reset stands in cmds, past the end for none
FirstMutating(cmds) ==
    IF \A k \in 1..Len(cmds) : cmds[k] \notin MutatingSteps THEN Len(cmds) + 1
    ELSE CHOOSE k \in 1..Len(cmds) :
             /\ cmds[k] \in MutatingSteps
             /\ \A j \in 1..(k - 1) : cmds[j] \notin MutatingSteps

\* C27: a CreateCommit or CheckoutCommit call runs the commands of
\* ensureMainBranch first, starting with the query of the current branch, and
\* stage, commit or reset only after all of them; when ensureMainBranch returns
\* an error the call runs none of stage, commit and reset and returns that
\* error wrapped; when it returns none the call goes on to stage or reset.
C27_EnsureMainBranchFirst ==
    lastRes.op \in ManagerCalls =>
        /\ lastRes.cmds # <<>>
        /\ lastRes.cmds[1] = "rev-parse --abbrev-ref HEAD"
        /\ \A k \in 1..Len(lastRes.cmds) :
               IF k < FirstMutating(lastRes.cmds)
                   THEN lastRes.cmds[k] \in EnsureCommands
               ELSE lastRes.cmds[k] \in MutatingSteps
        /\ lastRes.ensured # Nil =>
               /\ FirstMutating(lastRes.cmds) = Len(lastRes.cmds) + 1
               /\ lastRes.err = Wrap("failed to ensure main branch", lastRes.ensured)
        /\ lastRes.ensured = Nil => FirstMutating(lastRes.cmds) <= Len(lastRes.cmds)

\* a call has returned the error of ensureMainBranch, wrapped
C27_Witness ==
    /\ lastRes.op \in ManagerCalls
    /\ lastRes.ensured # Nil
    /\ Len(lastRes.cmds) > 2

\* C29: for a selection of 1 to 20 elements the output holds one descriptor for
\* each element, in captured order, between the area clause and the closing
\* marker, and no summary token.
C29_UpToTwentyAllDescribed ==
    (/\ HasFormatted
     /\ Len(fmtInput.Area.Elements) >= 1
     /\ Len(fmtInput.Area.Elements) <= 20) =>
        /\ fmtOutput =
               Join(<<fmtInput.Instruction, AreaClause(fmtInput.Area)>>
                        \o DescriptorsOf(fmtInput.Area.Elements, Len(fmtInput.Area.Elements))
                        \o << <<")">> >>)
        /\ CountOf(fmtOutput, "[") = Len(fmtInput.Area.Elements)
        /\ CountOf(fmtOutput, "+") = 0

C29_Witness == HasFormatted /\ Len(fmtInput.Area.Elements) = 20

(***************************************************************************)
(* ensureMainBranch from a detached HEAD.                                  *)
(***************************************************************************)
\* ensureMainBranch, having returned e, ran no merge and made no commit
NoMergeRun(e) ==
    /\ \A k \in 1..Len(e.cmds) : e.cmds[k] \notin {"merge --ff-only", "merge"}
    /\ e.repo.commits = commits
    /\ e.repo.mergeHead = mergeHead

\* main did not exist: it is created at the detached commit and checked out
CreatedAtDetached(e) ==
    branches["main"] = 0 =>
        /\ e.err = Nil
        /\ e.repo.branches = [branches EXCEPT !["main"] = head.at]
        /\ e.repo.head = OnBranch("main")

\* C30 as stated: from a detached HEAD ensureMainBranch runs no merge; a main
\* that did not exist is created at the detached commit; a main that existed
\* keeps its commit and is checked out, so that the detached commits are not
\* part of main.
C30_DetachedSwitchesWithoutMerge ==
    (HasRepo(Repo) /\ head.ref = "HEAD") =>
        LET e == ensureMainBranch(Repo)
        IN  /\ NoMergeRun(e)
            /\ CreatedAtDetached(e)
            /\ branches["main"] # 0 =>
                   /\ e.repo.branches = branches
                   /\ e.repo.head = OnBranch("main")

\* C30 amended: as above, except that a main that existed is checked out only
\* if git checkout main succeeds; if it fails ensureMainBranch returns the
\* checkout error and leaves the repository as it was, HEAD detached.
C30_DetachedSwitchesUnlessCheckoutFails ==
    (HasRepo(Repo) /\ head.ref = "HEAD") =>
        LET e == ensureMainBranch(Repo)
        IN  /\ NoMergeRun(e)
            /\ CreatedAtDetached(e)
            /\ branches["main"] # 0 =>
                   /\ e.repo.branches = branches
                   /\ e.err = Nil <=> SwitchedToMain.code = 0
                   /\ e.err = Nil => e.repo.head = OnBranch("main")
                   /\ e.err # Nil =>
                          /\ e.err = Wrap("failed to checkout main branch", ExitStatus(1))
                          /\ e.repo = Repo

\* HEAD is detached at a commit that is not part of main, and ensureMainBranch
\* switches to main and leaves it where it was
C30_Witness ==
    /\ HasRepo(Repo) /\ head.ref = "HEAD"
    /\ branches["main"] # 0
    /\ head.at \notin Ancestors(commits, branches["main"])
    /\ ensureMainBranch(Repo).err = Nil
    /\ head.at \notin Ancestors(ensureMainBranch(Repo).repo.commits,
                                ensureMainBranch(Repo).repo.branches["main"])

(***************************************************************************)
(* Teardown of the hook.                                                   *)
(***************************************************************************)
\* the step schedules a reconnect timer (line 105)
ReconnectScheduled ==
    \/ refTimer' # 0 /\ refTimer' # refTimer
    \/ Total(otherTimers') > Total(otherTimers)

\* the step is a reconnect attempt (lines 106-107)
ReconnectMade == reconnectAttempts' = reconnectAttempts + 1

\* C31: once the component has unmounted, its cleanup having cleared the timer
\* and closed the socket, no step schedules a reconnect or makes one; the close
\* event of the socket the cleanup closed starts no reconnect cycle.
C31_NoReconnectAfterTeardown ==
    [][~mounted => ~ReconnectScheduled /\ ~ReconnectMade]_vars

(***************************************************************************)
(* The attempt counter after a successful open.                            *)
(***************************************************************************)
\* the step is the first close event since the last open
FirstLossSinceOpen == backoff = <<>> /\ backoff' # <<>>

C35_SendWhileNotOpenHasNoEffect ==
    [][(wsEvent'.type = "send" /\ ws # "open") =>
          /\ wsEvent'.id = 0
          /\ ~wsEvent'.sent
          /\ wsEvent'.registered = 0
          /\ messageHandlers' = messageHandlers
          /\ handlersMade' = handlersMade]_vars

\* sendMessage was called with a request pending and the socket no longer open
C35_Witness ==
    /\ wsEvent.type = "send" /\ ~wsEvent.sent /\ wsEvent.id = 0
    /\ ws \in {"closing", "closed", "errored"}
    /\ \E i \in Ids : messageHandlers[i] # 0

(***************************************************************************)
(* The element count of the area clause.                                   *)
(***************************************************************************)
\* the area clause reporting n elements in an area of w by h pixels
ClauseReporting(n, w, h) ==
    <<"(", "S", "e", "l", "e", "c", "t", "e", "d", " ">> \o Digits(n)
        \o <<" ", "e", "l", "e", "m", "e", "n", "t", "s", " ", "i", "n", " ">>
        \o Digits(w) \o <<"x">> \o Digits(h) \o <<" ", "a", "r", "e", "a", ":">>

\* what follows the area clause for a sequence of elements: a descriptor for each
\* of the first 20 and a summary token for the rest
DescribedByLength(elements) ==
    IF Len(elements) > 20
    THEN DescriptorsOf(elements, 20) \o <<MoreElements(Len(elements) - 20)>>
    ELSE DescriptorsOf(elements, Len(elements))

CountsDiffer == HasFormatted /\ fmtInput.Area.ElementCount # Len(fmtInput.Area.Elements)

\* C37: the area clause shows the payload's ElementCount field; when it is not
\* the length of the element sequence, the descriptors and the remainder of the
\* summary token still follow the length of the sequence.
C37_ClauseReportsElementCountField ==
    CountsDiffer =>
        /\ fmtOutput =
               Join(<<fmtInput.Instruction,
                      ClauseReporting(fmtInput.Area.ElementCount, fmtInput.Area.Width,
                                      fmtInput.Area.Height)>>
                        \o DescribedByLength(fmtInput.Area.Elements)
                        \o << <<")">> >>)
        /\ CountOf(fmtOutput, "[") =
               IF Len(fmtInput.Area.Elements) > 20 THEN 21
               ELSE Len(fmtInput.Area.Elements)

\* 21 elements were sent with an elementCount of 5
C37_Witness ==
    /\ CountsDiffer
    /\ fmtInput.Area.ElementCount = 5
    /\ Len(fmtInput.Area.Elements) = 21

(***************************************************************************)
(* The dialogs.                                                            *)
(***************************************************************************)
\* C32: while isCreating is true no step of the checkpoint dialog, neither a
\* click on the button nor Cmd/Ctrl+Enter, issues another CreateGitCheckpoint
\* call.
C32_NoSecondCreateWhileCreating ==
    [][isCreating => Len(creating') <= Len(creating)]_vars

\* the step is a click on a checkpoint while a switch is in flight
ClickWhileSwitching == isSwitching /\ dialogEvent'.type = "switch"

\* the step is the end of a SwitchToGitCommit call
SwitchFinished == dialogEvent'.type \in {"switched", "switch failed"}

\* C33: at most one SwitchToGitCommit call is in flight, and isSwitching is true
\* exactly while one is; a click on a checkpoint while isSwitching is true starts
\* no switch and changes nothing; when the call resolves or rejects isSwitching
\* is false again.
C33_OneSwitchInFlight ==
    [][/\ Len(switching') <= 1
       /\ isSwitching' <=> Len(switching') = 1
       /\ ClickWhileSwitching =>
              /\ ~dialogEvent'.started
              /\ UNCHANGED <<isSwitching, switchingHash, switchError, switching>>
       /\ SwitchFinished => ~isSwitching' /\ switchingHash' = ""]_vars

\* a checkpoint was clicked while a switch was in flight
C33_Witness ==
    /\ dialogEvent.type = "switch" /\ ~dialogEvent.started
    /\ isSwitching /\ Len(switching) = 1

====
